---- MODULE Spec2Model ----
(***************************************************************************)
(* Model of the agent orchestration core of agents/refactored:             *)
(*   core/memory.py         ConversationHistory, MemoryStore               *)
(*   core/tool_executor.py  Tool, ToolRegistry, ToolResult                 *)
(*   core/agent.py          Agent (extract_action, execute_action,         *)
(*                          memory injection, process_query)               *)
(*   googlemaps_agent.py    GoogleMapsAgent overrides                      *)
(*                                                                         *)
(* Text is a sequence of tokens.  A token is one of the characters the     *)
(* code looks at (quotes, braces, brackets, comma, colon, whitespace, the  *)
(* two action tags) or a word: a run of characters none of which is one    *)
(* of those.  A Python value is a tagged record (see "Values").            *)
(***************************************************************************)
EXTENDS Integers, Sequences, FiniteSets, TLC

(***************************************************************************)
(* Tokens                                                                  *)
(***************************************************************************)
OPEN  == "<action>"
CLOSE == "</action>"
DQ    == "\""
SQ    == "'"
SP    == " "
NL    == "\n"

\* characters matched by \s and removed by str.strip()
Whitespace == {SP, NL}

\* words that json.loads reads as (part of) a number
Digits == {"0", "1", "2", "3", "9", "42"}

\* words that json.loads reads as a literal
Literals == {"true", "false", "null"}

(***************************************************************************)
(* Values: str, num, lit (True/False/None), arr (list), obj (dict).        *)
(* s holds the tokens of a str/num/lit, m the items of a list (a sequence) *)
(* or the entries of a dict (a function from key tokens to values).        *)
(***************************************************************************)
PyStr(toks)  == [t |-> "str", s |-> toks, m |-> <<>>]
PyNum(toks)  == [t |-> "num", s |-> toks, m |-> <<>>]
PyLit(w)     == [t |-> "lit", s |-> <<w>>, m |-> <<>>]
PyList(xs)   == [t |-> "arr", s |-> <<>>, m |-> xs]
PyDict(f)    == [t |-> "obj", s |-> <<>>, m |-> f]

S(w)      == PyStr(<<w>>)
None      == PyLit("null")
EmptyDict == PyDict(<<>>)

\* the key of a dict entry: the tokens of a Python string
K(w) == <<w>>

HasKey(d, w)  == K(w) \in DOMAIN d.m
Get(d, w)     == d.m[K(w)]
Put(d, w, v)  == PyDict((K(w) :> v) @@ d.m)

\* isinstance(v, dict), isinstance(v, list)
IsDict(v) == v.t = "obj"
IsList(v) == v.t = "arr"

\* v == "<w>" for a Python string literal of one word
IsWord(v, w) == v.t = "str" /\ v.s = <<w>>

\* a number made of zero digits only
IsZero(toks) == \A i \in 1..Len(toks) : toks[i] = "0"

\* bool(v)
Truthy(v) ==
    CASE v.t = "str" -> v.s # <<>>
      [] v.t = "num" -> ~IsZero(v.s)
      [] v.t = "lit" -> v.s = <<"true">>
      [] v.t = "arr" -> Len(v.m) > 0
      [] v.t = "obj" -> DOMAIN v.m # {}

(***************************************************************************)
(* str methods and regular expressions used by extract_action              *)
(***************************************************************************)
RECURSIVE LStrip(_)
LStrip(s) ==
    IF s # <<>> /\ Head(s) \in Whitespace THEN LStrip(Tail(s)) ELSE s

RECURSIVE RStrip(_)
RStrip(s) ==
    IF s # <<>> /\ s[Len(s)] \in Whitespace
    THEN RStrip(SubSeq(s, 1, Len(s) - 1))
    ELSE s

\* str.strip()
Strip(s) == RStrip(LStrip(s))

\* a replace that leaves the text as it is
ReplaceNothing(s, a, b) == s

\* str.replace(a, b) for single characters
Replace(s, a, b) == [i \in 1..Len(s) |-> IF s[i] = a THEN b ELSE s[i]]

\* re.sub(r',\s*<closer>', '<closer>', s)
RECURSIVE SubTrailingComma(_, _)
SubTrailingComma(s, closer) ==
    IF s = <<>> THEN <<>>
    ELSE LET rest == LStrip(Tail(s))
         IN  IF Head(s) = "," /\ rest # <<>> /\ Head(rest) = closer
             THEN <<closer>> \o SubTrailingComma(Tail(rest), closer)
             ELSE <<Head(s)>> \o SubTrailingComma(Tail(s), closer)

\* re.sub(r'\s+', '', s)
RECURSIVE SubWhitespace(_)
SubWhitespace(s) ==
    IF s = <<>> THEN <<>>
    ELSE IF Head(s) \in Whitespace THEN SubWhitespace(Tail(s))
    ELSE <<Head(s)>> \o SubWhitespace(Tail(s))

\* least index >= i at which s holds tok, or 0
RECURSIVE IndexFrom(_, _, _)
IndexFrom(s, tok, i) ==
    IF i > Len(s) THEN 0
    ELSE IF s[i] = tok THEN i
    ELSE IndexFrom(s, tok, i + 1)

\* the index of the last tok in s, or 0
RECURSIVE LastIndex(_, _, _)
LastIndex(s, tok, i) ==
    IF i = 0 THEN 0
    ELSE IF s[i] = tok THEN i
    ELSE LastIndex(s, tok, i - 1)

\* a greedy search: from the leftmost opening tag up to the last closing tag
SearchActionGreedy(s) ==
    LET i == IndexFrom(s, OPEN, 1)
        j == IF i = 0 THEN 0 ELSE LastIndex(s, CLOSE, Len(s))
    IN  IF j <= i
        THEN [found |-> FALSE, group |-> <<>>]
        ELSE [found |-> TRUE, group |-> SubSeq(s, i + 1, j - 1)]

\* re.search(r"<action>(.*?)</action>", s, re.DOTALL): the leftmost opening
\* tag that is followed by a closing tag, up to the nearest closing tag
SearchAction(s) ==
    LET i == IndexFrom(s, OPEN, 1)
        j == IF i = 0 THEN 0 ELSE IndexFrom(s, CLOSE, i + 1)
    IN  IF j = 0
        THEN [found |-> FALSE, group |-> <<>>]
        ELSE [found |-> TRUE, group |-> SubSeq(s, i + 1, j - 1)]

(***************************************************************************)
(* json.loads                                                              *)
(***************************************************************************)
\* the token at i, or "" past the end of the text
At(s, i) == IF i \in 1..Len(s) THEN s[i] ELSE ""

\* least index >= i that holds no whitespace (Len(s) + 1 when there is none)
RECURSIVE SkipWS(_, _)
SkipWS(s, i) ==
    IF i <= Len(s) /\ s[i] \in Whitespace THEN SkipWS(s, i + 1) ELSE i

\* index after the run of digits that starts at i ("0" is a run by itself)
RECURSIVE NumberEnd(_, _)
NumberEnd(s, i) ==
    IF At(s, i) \in Digits THEN NumberEnd(s, i + 1) ELSE i

JSONDecodeError == [ok |-> FALSE, v |-> None, i |-> 0]
Decoded(v, i)   == [ok |-> TRUE, v |-> v, i |-> i]

\* the escape sequences \" and \n of a JSON string, each one token
EscDQ == "\\\""
EscNL == "\\n"

\* the text of a JSON string with its escape sequences decoded
Unescape(s) ==
    [k \in 1..Len(s) |-> CASE s[k] = EscDQ -> DQ
                            [] s[k] = EscNL -> NL
                            [] OTHER -> s[k]]

\* a string starts at i (s[i] is the opening quote); a raw newline inside a
\* string is an invalid control character
ParseString(s, i) ==
    LET j == IndexFrom(s, DQ, i + 1)
    IN  IF At(s, i) # DQ \/ j = 0 THEN JSONDecodeError
        ELSE IF \E k \in (i + 1)..(j - 1) : s[k] = NL THEN JSONDecodeError
        ELSE Decoded(PyStr(Unescape(SubSeq(s, i + 1, j - 1))), j + 1)

RECURSIVE ParseValue(_, _)
RECURSIVE ParseMembers(_, _, _)
RECURSIVE ParseItems(_, _, _)

\* the members of an object from the key at i on; a repeated key keeps the
\* last value
ParseMembers(s, i, acc) ==
    LET key == ParseString(s, i)
        c   == IF key.ok THEN SkipWS(s, key.i) ELSE 0
        val == IF key.ok /\ At(s, c) = ":"
               THEN ParseValue(s, SkipWS(s, c + 1))
               ELSE JSONDecodeError
        e   == IF val.ok THEN SkipWS(s, val.i) ELSE 0
        new == (key.v.s :> val.v) @@ acc
    IN  IF ~val.ok THEN JSONDecodeError
        ELSE IF At(s, e) = "}" THEN Decoded(PyDict(new), e + 1)
        ELSE IF At(s, e) = "," THEN ParseMembers(s, SkipWS(s, e + 1), new)
        ELSE JSONDecodeError

\* the items of an array from the value at i on
ParseItems(s, i, acc) ==
    LET val == ParseValue(s, i)
        e   == IF val.ok THEN SkipWS(s, val.i) ELSE 0
        new == Append(acc, val.v)
    IN  IF ~val.ok THEN JSONDecodeError
        ELSE IF At(s, e) = "]" THEN Decoded(PyList(new), e + 1)
        ELSE IF At(s, e) = "," THEN ParseItems(s, SkipWS(s, e + 1), new)
        ELSE JSONDecodeError

ParseValue(s, i) ==
    LET c == At(s, i)
    IN  CASE c = DQ -> ParseString(s, i)
          [] c = "{" ->
               LET j == SkipWS(s, i + 1)
               IN  IF At(s, j) = "}" THEN Decoded(EmptyDict, j + 1)
                   ELSE ParseMembers(s, j, <<>>)
          [] c = "[" ->
               LET j == SkipWS(s, i + 1)
               IN  IF At(s, j) = "]" THEN Decoded(PyList(<<>>), j + 1)
                   ELSE ParseItems(s, j, <<>>)
          [] c \in Digits ->
               LET j == IF c = "0" THEN i + 1 ELSE NumberEnd(s, i)
               IN  Decoded(PyNum(SubSeq(s, i, j - 1)), j)
          [] c \in Literals -> Decoded(PyLit(c), i + 1)
          [] OTHER -> JSONDecodeError

\* json.loads(s): one value, whitespace around it, nothing after it
loads(s) ==
    LET r == ParseValue(s, SkipWS(s, 1))
    IN  IF r.ok /\ SkipWS(s, r.i) > Len(s) THEN r ELSE JSONDecodeError

(***************************************************************************)
(* str() and repr() of a value, as tokens.  A dict has no insertion order  *)
(* here: its entries are rendered in one fixed order of the keys.          *)
(***************************************************************************)
\* the keys of a dict in a fixed order
RECURSIVE KeySeq(_)
KeySeq(ks) ==
    IF ks = {} THEN <<>>
    ELSE LET k == CHOOSE x \in ks : TRUE
         IN  <<k>> \o KeySeq(ks \ {k})

PyLitName(w) ==
    CASE w = "null" -> "None" [] w = "true" -> "True" [] w = "false" -> "False"

RECURSIVE repr(_)
RECURSIVE ReprItems(_, _)
RECURSIVE ReprEntries(_, _)

ReprItems(xs, i) ==
    IF i > Len(xs) THEN <<>>
    ELSE (IF i > 1 THEN <<",", SP>> ELSE <<>>) \o repr(xs[i])
         \o ReprItems(xs, i + 1)

ReprEntries(f, ks) ==
    IF ks = <<>> THEN <<>>
    ELSE <<SQ>> \o Head(ks) \o <<SQ, ":", SP>> \o repr(f[Head(ks)])
         \o (IF Len(ks) > 1 THEN <<",", SP>> ELSE <<>>)
         \o ReprEntries(f, Tail(ks))

repr(v) ==
    CASE v.t = "str" -> <<SQ>> \o v.s \o <<SQ>>
      [] v.t = "num" -> v.s
      [] v.t = "lit" -> <<PyLitName(v.s[1])>>
      [] v.t = "arr" -> <<"[">> \o ReprItems(v.m, 1) \o <<"]">>
      [] v.t = "obj" -> <<"{">> \o ReprEntries(v.m, KeySeq(DOMAIN v.m)) \o <<"}">>

\* str(v)
str(v) == IF v.t = "str" THEN v.s ELSE repr(v)

\* the decimal numeral of a small natural number, as a token
Numeral(n) ==
    CASE n = 0 -> "0" [] n = 1 -> "1" [] n = 2 -> "2" [] n = 3 -> "3"
      [] OTHER -> "many"

(***************************************************************************)
(* json.dumps with its default separators; the entries of a dict are       *)
(* written in the fixed order of the keys                                  *)
(***************************************************************************)
\* the text of a JSON string with quotes and newlines escaped
Escape(s) ==
    [k \in 1..Len(s) |-> CASE s[k] = DQ -> EscDQ
                            [] s[k] = NL -> EscNL
                            [] OTHER -> s[k]]

RECURSIVE dumps(_)
RECURSIVE DumpItems(_, _)
RECURSIVE DumpEntries(_, _)

DumpItems(xs, i) ==
    IF i > Len(xs) THEN <<>>
    ELSE (IF i > 1 THEN <<",", SP>> ELSE <<>>) \o dumps(xs[i])
         \o DumpItems(xs, i + 1)

DumpEntries(f, ks) ==
    IF ks = <<>> THEN <<>>
    ELSE <<DQ>> \o Escape(Head(ks)) \o <<DQ, ":", SP>> \o dumps(f[Head(ks)])
         \o (IF Len(ks) > 1 THEN <<",", SP>> ELSE <<>>)
         \o DumpEntries(f, Tail(ks))

dumps(v) ==
    CASE v.t = "str" -> <<DQ>> \o Escape(v.s) \o <<DQ>>
      [] v.t = "num" -> v.s
      [] v.t = "lit" -> v.s
      [] v.t = "arr" -> <<"[">> \o DumpItems(v.m, 1) \o <<"]">>
      [] v.t = "obj" -> <<"{">> \o DumpEntries(v.m, KeySeq(DOMAIN v.m)) \o <<"}">>

(***************************************************************************)
(* core/errors.py: an exception is a record; name is the tool the error is *)
(* about, cause_type and cause describe the wrapped exception, raw_output  *)
(* is the text a ParsingError carries.                                     *)
(***************************************************************************)
Exception(type) ==
    [type |-> type, name |-> None, cause_type |-> "", cause |-> <<>>,
     raw_output |-> <<>>]

NoError == Exception("")

ToolNotFoundError(tool_name) ==
    [Exception("ToolNotFoundError") EXCEPT !.name = tool_name]

InvalidToolInputError(tool_name) ==
    [Exception("InvalidToolInputError") EXCEPT !.name = tool_name]

\* a ParsingError that keeps the text without the whitespace around it
ParsingErrorStripped(raw_output) ==
    [Exception("ParsingError") EXCEPT !.raw_output = Strip(raw_output)]

ParsingError(raw_output) ==
    [Exception("ParsingError") EXCEPT !.raw_output = raw_output]

\* ErrorCode of the AgentError classes
ErrorCode(type) ==
    CASE type = "ToolNotFoundError" -> "tool_not_found"
      [] type = "ToolExecutionError" -> "tool_execution_error"
      [] type = "InvalidToolInputError" -> "invalid_tool_input"
      [] type = "ParsingError" -> "parsing_error"
      [] OTHER -> ""

\* str(e): "<code>: <message> - <details>" for an AgentError, the bare
\* message (here the type name) for a built-in exception
StrOfError(e) ==
    CASE e.type = "ToolNotFoundError" ->
           <<"tool_not_found", ": Tool '">> \o str(e.name)
           \o <<"' not found in registry", " - details">>
      [] e.type = "InvalidToolInputError" ->
           <<"invalid_tool_input", ": Invalid input for tool '">>
           \o str(e.name) \o <<"'", " - details">>
      [] e.type = "ToolExecutionError" ->
           <<"tool_execution_error", ": Error executing tool '">>
           \o str(e.name) \o <<"': ">> \o e.cause \o <<" - details">>
      [] e.type = "ParsingError" ->
           <<"parsing_error", ": Failed to parse action JSON", " - details">>
      [] OTHER -> <<e.type>>

ToolExecutionError(tool_name, cause) ==
    [Exception("ToolExecutionError") EXCEPT
        !.name = tool_name, !.cause_type = cause.type,
        !.cause = StrOfError(cause)]

(***************************************************************************)
(* Agent.extract_action                                                    *)
(***************************************************************************)
Extracted(action) == [raised |-> FALSE, action |-> action, error |-> NoError]
Raised(error)     == [raised |-> TRUE, action |-> EmptyDict, error |-> error]

\* a normalization that fills in the missing keys and leaves a tool_input
\* that is not a dict as it is
NormalizeActionDefaultsOnly(parsed) ==
    LET a2 == IF ~HasKey(parsed, "tool")
              THEN Put(parsed, "tool", S("answer")) ELSE parsed
        a3 == IF ~HasKey(a2, "tool_input")
              THEN Put(a2, "tool_input", EmptyDict) ELSE a2
    IN  IF ~HasKey(a3, "reasoning")
        THEN Put(a3, "reasoning", S("No reasoning provided.")) ELSE a3

\* agent.py lines 175-190, for a parsed value that is a dict
NormalizeAction(parsed) ==
    LET a1 == IF HasKey(parsed, "tool_input")
                 /\ ~IsDict(Get(parsed, "tool_input"))
              THEN Put(parsed, "tool_input",
                       PyDict(K("text") :>
                              PyStr(str(Get(parsed, "tool_input")))))
              ELSE parsed
        a2 == IF ~HasKey(a1, "tool") THEN Put(a1, "tool", S("answer")) ELSE a1
        a3 == IF ~HasKey(a2, "tool_input")
              THEN Put(a2, "tool_input", EmptyDict) ELSE a2
    IN  IF ~HasKey(a3, "reasoning")
        THEN Put(a3, "reasoning", S("No reasoning provided.")) ELSE a3

\* repairs that leave a trailing comma before a closing bracket in place
FixCommonErrorsInObjects(block) ==
    SubTrailingComma(Replace(block, SQ, DQ), "}")

\* the repairs applied to the block before the first parse (lines 151-155)
FixCommonErrors(block) ==
    SubTrailingComma(SubTrailingComma(Replace(block, SQ, DQ), "}"), "]")

extract_action(response_text) ==
    LET match == SearchAction(response_text)
        action_json == FixCommonErrors(Strip(match.group))
        first  == loads(action_json)
        second == loads(SubWhitespace(action_json))
        parsed == IF first.ok THEN first.v ELSE second.v
    IN  IF ~match.found
        THEN Extracted(PyDict(
                 K("tool") :> S("answer")
              @@ K("tool_input") :> PyDict(K("text") :> PyStr(Strip(response_text)))
              @@ K("reasoning") :> S("No <action> block found.")))
        ELSE IF ~first.ok /\ ~second.ok
        THEN Raised(ParsingError(response_text))
        \* membership tests and item assignment on a value that is not a
        \* dict raise TypeError, which line 194 turns into ParsingError
        ELSE IF ~IsDict(parsed) THEN Raised(ParsingError(response_text))
        ELSE Extracted(NormalizeAction(parsed))

(***************************************************************************)
(* core/memory.py                                                          *)
(***************************************************************************)
\* the clock datetime.now() reads.  It moves in SpecMemory, where the
\* timestamps are looked at; process_query and execute_action never read a
\* timestamp, and the clock stands still in their specifications.
VARIABLE now

\* the default max_conversation_history of a MemoryStore
DefaultMaxMessages == 100

\* Message.__init__: metadata or {}, timestamp = datetime.now()
MessageAt(role, content, metadata, timestamp) ==
    [role |-> role, content |-> content,
     metadata |-> IF Truthy(metadata) THEN metadata ELSE EmptyDict,
     timestamp |-> timestamp]

\* a message constructed without metadata, as Agent.add_message does
Message(role, content) == MessageAt(role, content, None, now)

\* Message.to_llm_format
MessageToLLM(msg) == [role |-> msg.role, content |-> msg.content]

\* xs[-n:] for 0 <= n <= Len(xs); xs[-0:] is xs[0:], the whole list
SliceLast(xs, n) ==
    IF n = 0 THEN xs ELSE SubSeq(xs, Len(xs) - n + 1, Len(xs))

\* ConversationHistory.add: the message list after the call
ConversationAdd(msgs, maxm, msg) ==
    LET appended == Append(msgs, msg)
    IN  IF Len(appended) > maxm THEN SliceLast(appended, maxm) ELSE appended

\* ConversationHistory.to_llm_format / MemoryStore.get_conversation_history
get_conversation_history(msgs) ==
    [i \in 1..Len(msgs) |-> MessageToLLM(msgs[i])]

\* MemoryItem.__init__: metadata or {}, created_at = datetime.now(),
\* updated_at = created_at
MemoryItem(value, metadata, t) ==
    [value |-> value,
     metadata |-> IF Truthy(metadata) THEN metadata ELSE EmptyDict,
     created_at |-> t, updated_at |-> t]

\* dict.update: the entries of both, those of the argument winning
DictUpdate(d, other) == PyDict(other.m @@ d.m)

\* an update of a MemoryItem that puts the new metadata in place of the old
MemoryItemUpdateReplace(item, value, metadata, t) ==
    [item EXCEPT !.value = value,
                 !.metadata = IF Truthy(metadata) THEN metadata ELSE @,
                 !.updated_at = t]

\* MemoryItem.update
MemoryItemUpdate(item, value, metadata, t) ==
    [item EXCEPT !.value = value,
                 !.metadata = IF Truthy(metadata)
                              THEN DictUpdate(@, metadata) ELSE @,
                 !.updated_at = t]

\* MemoryStore.remember at time t: update in place or create
remember_at(store, key, value, metadata, t) ==
    IF key \in DOMAIN store
    THEN [store EXCEPT ![key] = MemoryItemUpdate(@, value, metadata, t)]
    ELSE (key :> MemoryItem(value, metadata, t)) @@ store

\* MemoryStore.remember without metadata, as the agents call it
remember(store, key, value) == remember_at(store, key, value, None, now)

\* MemoryStore.recall
recall(store, key) ==
    IF key \in DOMAIN store THEN store[key].value ELSE None

\* MemoryStore.recall_with_metadata: a copy of the MemoryItem, or None
recall_with_metadata(store, key) ==
    IF key \in DOMAIN store THEN store[key] ELSE None

\* a forget that reports success whether or not the key was there
forgetAnyway(store, key) ==
    [store |-> [k \in DOMAIN store \ {key} |-> store[k]], result |-> TRUE]

\* MemoryStore.forget: the store after the call and the value returned
forget(store, key) ==
    IF key \in DOMAIN store
    THEN [store |-> [k \in DOMAIN store \ {key} |-> store[k]], result |-> TRUE]
    ELSE [store |-> store, result |-> FALSE]

\* MemoryStore.has_key
has_key(store, key) == key \in DOMAIN store

\* datetime.isoformat: the text of a time
isoformat(t) == PyStr(<<"T", ToString(t)>>)

\* MemoryItem.to_dict
MemoryItemToDict(key, item) ==
    PyDict(K("key") :> S(key) @@ K("value") :> item.value
           @@ K("metadata") :> item.metadata
           @@ K("created_at") :> isoformat(item.created_at)
           @@ K("updated_at") :> isoformat(item.updated_at))

\* Message.to_dict
MessageToDict(msg) ==
    PyDict(K("role") :> S(msg.role) @@ K("content") :> msg.content
           @@ K("metadata") :> msg.metadata
           @@ K("timestamp") :> isoformat(msg.timestamp))

\* MemoryStore.to_json of a store with the keyed items store and the
\* messages msgs: the snapshot text
to_json(store, msgs) ==
    dumps(PyDict(
        K("data") :> PyDict([k \in {K(key) : key \in DOMAIN store} |->
                                MemoryItemToDict(k[1], store[k[1]])])
        @@ K("conversation") :>
               PyList([i \in 1..Len(msgs) |-> MessageToDict(msgs[i])])))

MemoryError == Exception("MemoryError")

\* dict.get(w, default)
DictGet(d, w, default) == IF HasKey(d, w) THEN Get(d, w) ELSE default

\* the role a snapshot gives a message (roles are one word)
RoleOf(v) == IF v.t = "str" /\ Len(v.s) = 1 THEN v.s[1] ELSE ""

\* the loop of from_json over json_data["conversation"]: add_message of
\* role, content and metadata to a store of the default size
RECURSIVE RestoreMessages(_, _, _, _)
RestoreMessages(items, i, msgs, t) ==
    IF i > Len(items) THEN msgs
    ELSE RestoreMessages(items, i + 1,
             ConversationAdd(msgs, DefaultMaxMessages,
                 MessageAt(RoleOf(DictGet(items[i], "role", PyStr(<<>>))),
                           DictGet(items[i], "content", PyStr(<<>>)),
                           DictGet(items[i], "metadata", EmptyDict), t)),
             t)

\* MemoryStore.from_json at time t: a new store of the default size into
\* which the key, value and metadata of every item are remembered and the
\* role, content and metadata of every message are added; any exception
\* becomes a MemoryError.  (The keys of a snapshot are one word.)
from_json(json_str, t) ==
    LET r         == loads(json_str)
        json_data == r.v
        data_dict == DictGet(json_data, "data", EmptyDict)
        conv      == DictGet(json_data, "conversation", PyList(<<>>))
        readable  == /\ r.ok
                     /\ IsDict(json_data)
                     /\ IsDict(data_dict)
                     /\ \A k \in DOMAIN data_dict.m : IsDict(data_dict.m[k])
                     /\ \/ /\ IsList(conv)
                           /\ \A i \in 1..Len(conv.m) : IsDict(conv.m[i])
                        \/ conv.t \in {"str", "obj"} /\ ~Truthy(conv)
    IN  IF ~readable
        THEN [raised |-> MemoryError, data |-> <<>>, messages |-> <<>>,
              max_messages |-> DefaultMaxMessages]
        ELSE [raised |-> NoError,
              data |-> [key \in {k[1] : k \in DOMAIN data_dict.m} |->
                           MemoryItem(
                               DictGet(data_dict.m[K(key)], "value", None),
                               DictGet(data_dict.m[K(key)], "metadata", EmptyDict),
                               t)],
              messages |-> IF IsList(conv)
                           THEN RestoreMessages(conv.m, 1, <<>>, t) ELSE <<>>,
              max_messages |-> DefaultMaxMessages]

(***************************************************************************)
(* core/tool_executor.py                                                   *)
(***************************************************************************)
ToolResult(success, result, error, metadata) ==
    [success |-> success, result |-> result, error |-> error,
     metadata |-> metadata]

NoResult == ToolResult(FALSE, None, NoError, {})

\* ToolResult.__str__
StrOfToolResult(r) ==
    IF r.success THEN <<"Success: ">> \o str(r.result)
    ELSE <<"Error: ">> \o StrOfError(r.error)

\* jsonschema's "type" keyword against a value
HasType(v, type) ==
    CASE type = "string"  -> v.t = "str"
      [] type = "array"   -> v.t = "arr"
      [] type = "object"  -> v.t = "obj"
      [] type = "integer" -> v.t = "num"
      [] type = "number"  -> v.t = "num"
      [] type = "boolean" -> v.t = "lit" /\ v.s # <<"null">>
      [] OTHER -> TRUE

\* jsonschema.validate(instance=params, schema=schema) succeeds: every
\* required property is present and every declared property that is
\* present has the declared type
SchemaValid(schema, params) ==
    /\ \A r \in schema.required : HasKey(params, r)
    /\ \A p \in DOMAIN schema.properties :
          HasKey(params, p) => HasType(Get(params, p), schema.properties[p])

\* self.func(**params) can bind its arguments: no unexpected keyword and
\* no missing positional argument
CanBind(tool, params) ==
    /\ \A k \in DOMAIN params.m :
          \E p \in tool.signature : k = K(p)
    /\ \A p \in tool.positional : HasKey(params, p)

\* what the executable does once called: it returns a value or faults
Returns(value) == [kind |-> "return", value |-> value, fault |-> NoError]
Faults(type)   == [kind |-> "raise", value |-> None, fault |-> Exception(type)]

\* the outcome of a call of Tool.execute / ToolRegistry.execute: the
\* exception raised to the caller (NoError when it returns), the returned
\* ToolResult, whether validation ran, how often the executable was called
\* and what that call did
Executed(raised, result, validated, invoked, outcome) ==
    [raised |-> raised, result |-> result, validated |-> validated,
     invoked |-> invoked, outcome |-> outcome]

NotCalled == [kind |-> "none", value |-> None, fault |-> NoError]

\* Tool.execute
\* Tool.execute without the validation of line 133
ToolExecuteUnvalidated(name, tool, params, outcome) ==
    LET call == IF CanBind(tool, params) THEN outcome ELSE Faults("TypeError")
    IN  IF call.kind = "return"
        THEN Executed(NoError, ToolResult(TRUE, call.value, NoError, {}),
                      FALSE, 1, call)
        ELSE IF call.fault.type = "InvalidToolInputError"
        THEN Executed(call.fault, NoResult, FALSE, 1, call)
        ELSE Executed(NoError,
                      ToolResult(FALSE, None, call.fault, {"traceback"}),
                      FALSE, 1, call)

\* Tool.execute; a call whose keywords do not bind raises TypeError
\* before the body of the executable runs
ToolExecute(name, tool, params, outcome) ==
    LET call == IF CanBind(tool, params) THEN outcome ELSE Faults("TypeError")
    IN  IF ~SchemaValid(tool.schema, params)
        THEN Executed(InvalidToolInputError(PyStr(name)), NoResult, TRUE, 0,
                      NotCalled)
        ELSE IF call.kind = "return"
        THEN Executed(NoError, ToolResult(TRUE, call.value, NoError, {}),
                      TRUE, 1, call)
        ELSE IF call.fault.type = "InvalidToolInputError"
        THEN Executed(call.fault, NoResult, TRUE, 1, call)
        ELSE Executed(NoError,
                      ToolResult(FALSE, None, call.fault, {"traceback"}),
                      TRUE, 1, call)

\* a registry that keeps the first registration of a name
registerFirst(tools, name, func, schema) ==
    tools @@ (name :> [schema |-> schema, signature |-> func.signature,
                       positional |-> func.positional])

\* ToolRegistry.register: self.tools[name] = Tool(name, func, schema, ...)
register(tools, name, func, schema) ==
    (name :> [schema |-> schema, signature |-> func.signature,
              positional |-> func.positional]) @@ tools

\* ToolRegistry.get succeeds
Registered(registry, name) == name.t = "str" /\ name.s \in DOMAIN registry

\* ToolRegistry.execute; an unhashable name makes the dict lookup raise
\* TypeError
RegistryExecute(registry, name, params, outcome) ==
    IF name.t \in {"arr", "obj"}
    THEN Executed(Exception("TypeError"), NoResult, FALSE, 0, NotCalled)
    ELSE IF ~Registered(registry, name)
    THEN Executed(ToolNotFoundError(name), NoResult, FALSE, 0, NotCalled)
    ELSE ToolExecute(name.s, registry[name.s], params, outcome)

(***************************************************************************)
(* core/agent.py and googlemaps_agent.py: memory injection                 *)
(***************************************************************************)
PolylineCoordsTools == {"get_places", "get_natural_features", "render_map"}

\* the field injection without the test that the field is missing
InjectFieldOverwrite(store, tool_name, tool_input) ==
    IF IsWord(tool_name, "sample_polyline")
    THEN IF Truthy(recall(store, "encoded_polyline"))
         THEN Put(tool_input, "encoded_polyline",
                  recall(store, "encoded_polyline"))
         ELSE tool_input
    ELSE IF \E w \in PolylineCoordsTools : IsWord(tool_name, w)
    THEN IF Truthy(recall(store, "polyline_coords"))
         THEN Put(tool_input, "polyline_coords",
                  recall(store, "polyline_coords"))
         ELSE tool_input
    ELSE tool_input

\* lines 256-266 of agent.py, repeated as lines 120-130 of
\* googlemaps_agent.py: fill the one field the tool takes from memory
InjectField(store, tool_name, tool_input) ==
    IF IsWord(tool_name, "sample_polyline")
       /\ ~HasKey(tool_input, "encoded_polyline")
    THEN IF Truthy(recall(store, "encoded_polyline"))
         THEN Put(tool_input, "encoded_polyline",
                  recall(store, "encoded_polyline"))
         ELSE tool_input
    ELSE IF (\E w \in PolylineCoordsTools : IsWord(tool_name, w))
            /\ ~HasKey(tool_input, "polyline_coords")
    THEN IF Truthy(recall(store, "polyline_coords"))
         THEN Put(tool_input, "polyline_coords",
                  recall(store, "polyline_coords"))
         ELSE tool_input
    ELSE tool_input

\* lines 269-276 of agent.py: render_map gets the paths of the saved files
InjectPaths(store, tool_name, tool_input) ==
    LET t1 == IF has_key(store, "places") /\ ~HasKey(tool_input, "places_path")
              THEN Put(tool_input, "places_path", S("places_along_route.json"))
              ELSE tool_input
        t2 == IF has_key(store, "features") /\ ~HasKey(t1, "features_path")
              THEN Put(t1, "features_path",
                       S("natural_features_along_route.json"))
              ELSE t1
    IN  IF IsWord(tool_name, "render_map") THEN t2 ELSE tool_input

\* Agent._inject_memory_into_tool_input
AgentInject(store, tool_name, tool_input) ==
    InjectPaths(store, tool_name, InjectField(store, tool_name, tool_input))

\* line 253: the method works on tool_input.copy(), so the dict the caller
\* passed (argument) is as it was when the method returns
Injected(tool_input, argument) ==
    [tool_input |-> tool_input, argument |-> argument]

\* lines 133-144 of googlemaps_agent.py: render_map gets the lists themselves
InjectLists(store, tool_name, tool_input) ==
    LET t1 == IF has_key(store, "places")
                 /\ ~HasKey(tool_input, "places_path")
                 /\ ~HasKey(tool_input, "places")
                 /\ Truthy(recall(store, "places"))
              THEN Put(tool_input, "places", recall(store, "places"))
              ELSE tool_input
        t2 == IF has_key(store, "features")
                 /\ ~HasKey(t1, "features_path")
                 /\ ~HasKey(t1, "features")
                 /\ Truthy(recall(store, "features"))
              THEN Put(t1, "features", recall(store, "features"))
              ELSE t1
    IN  IF IsWord(tool_name, "render_map") THEN t2 ELSE tool_input

\* GoogleMapsAgent._inject_memory_into_tool_input
GoogleMapsInject(store, tool_name, tool_input) ==
    LET base == AgentInject(store, tool_name, tool_input)
    IN  InjectLists(store, tool_name, InjectField(store, tool_name, base))

\* the method the agent of class cls runs
_inject_memory_into_tool_input(cls, store, tool_name, tool_input) ==
    IF cls = "GoogleMapsAgent"
    THEN Injected(GoogleMapsInject(store, tool_name, tool_input), tool_input)
    ELSE Injected(AgentInject(store, tool_name, tool_input), tool_input)

(***************************************************************************)
(* result-to-memory rule table                                             *)
(***************************************************************************)
\* remember(key, result[field]) if the field is in the result
RememberField(store, result, field, key) ==
    IF HasKey(result, field) THEN remember(store, key, Get(result, field))
    ELSE store

\* the rule table without its tests of the result's type
AgentUpdateMemoryUntyped(store, tool_name, result) ==
    IF IsWord(tool_name, "get_route") /\ IsDict(result)
    THEN RememberField(
             RememberField(store, result, "polyline", "encoded_polyline"),
             result, "polyline_coords", "polyline_coords")
    ELSE IF IsWord(tool_name, "sample_polyline")
    THEN remember(store, "polyline_coords", result)
    ELSE IF IsWord(tool_name, "get_places")
    THEN remember(store, "places", result)
    ELSE IF IsWord(tool_name, "get_natural_features")
    THEN remember(store, "features", result)
    ELSE store

\* Agent._update_memory_from_tool_result
AgentUpdateMemory(store, tool_name, result) ==
    IF IsWord(tool_name, "get_route") /\ IsDict(result)
    THEN RememberField(
             RememberField(store, result, "polyline", "encoded_polyline"),
             result, "polyline_coords", "polyline_coords")
    ELSE IF IsWord(tool_name, "sample_polyline") /\ IsList(result)
    THEN remember(store, "polyline_coords", result)
    ELSE IF IsWord(tool_name, "get_places") /\ IsList(result)
    THEN remember(store, "places", result)
    ELSE IF IsWord(tool_name, "get_natural_features") /\ IsList(result)
    THEN remember(store, "features", result)
    ELSE store

\* GoogleMapsAgent._update_memory_from_tool_result: the base rules, the
\* same rules again, and the distance and duration of a route
GoogleMapsUpdateMemory(store, tool_name, result) ==
    LET again == AgentUpdateMemory(AgentUpdateMemory(store, tool_name, result),
                                   tool_name, result)
    IN  IF IsWord(tool_name, "get_route") /\ IsDict(result)
        THEN RememberField(
                 RememberField(again, result, "distance_text", "distance_text"),
                 result, "duration_text", "duration_text")
        ELSE again

_update_memory_from_tool_result(cls, store, tool_name, result) ==
    IF cls = "GoogleMapsAgent"
    THEN GoogleMapsUpdateMemory(store, tool_name, result)
    ELSE AgentUpdateMemory(store, tool_name, result)

(***************************************************************************)
(* Agent.execute_action                                                    *)
(***************************************************************************)
\* the ToolResult returned, the keyed memory afterwards, the action dict
\* afterwards, the input handed to the registry and the outcome of
\* ToolRegistry.execute
execute_action(cls, registry, store, action, outcome) ==
    LET tool_name  == Get(action, "tool")
        given      == Get(action, "tool_input")
        injected   == _inject_memory_into_tool_input(cls, store, tool_name, given)
        tool_input == injected.tool_input
        exec       == RegistryExecute(registry, tool_name, tool_input, outcome)
        meta       == {"tool_name", "tool_input"}
        result     == IF exec.raised.type = "ToolNotFoundError"
                      THEN ToolResult(FALSE, None, exec.raised, meta)
                      ELSE IF exec.raised # NoError
                      THEN ToolResult(FALSE, None,
                               ToolExecutionError(tool_name, exec.raised), meta)
                      ELSE exec.result
    IN  [result |-> result,
         store |-> IF exec.raised = NoError /\ exec.result.success
                   THEN _update_memory_from_tool_result(
                            cls, store, tool_name, exec.result.result)
                   ELSE store,
         action |-> Put(action, "tool_input", injected.argument),
         tool_input |-> tool_input,
         exec |-> exec]

(***************************************************************************)
(* format_tool_result                                                      *)
(***************************************************************************)
Formatted(text)  == [raised |-> NoError, text |-> text]
FormatRaises(e)  == [raised |-> Exception(e), text |-> <<>>]

\* sep.join(parts) for a sequence of token sequences
RECURSIVE Join(_, _)
Join(parts, sep) ==
    IF parts = <<>> THEN <<>>
    ELSE IF Len(parts) = 1 THEN parts[1]
    ELSE parts[1] \o <<sep>> \o Join(Tail(parts), sep)

\* ", ".join(f"{k}: {v}" for k, v in item.items())
ItemsLine(item) ==
    LET ks == KeySeq(DOMAIN item.m)
    IN  Join([i \in 1..Len(ks) |-> ks[i] \o <<": ">> \o str(item.m[ks[i]])], ", ")

\* "\n".join(f"{k}: {v}" for k, v in d.items())
ItemsLines(d) ==
    LET ks == KeySeq(DOMAIN d.m)
    IN  Join([i \in 1..Len(ks) |-> ks[i] \o <<": ">> \o str(d.m[ks[i]])], NL)

Min(a, b) == IF a < b THEN a ELSE b

\* Agent.format_tool_result
AgentFormat(tool_name, result) ==
    LET name   == str(tool_name)
        value  == result.result
        sample == SubSeq(value.m, 1, Min(3, Len(value.m)))
    IN  IF ~result.success
        THEN Formatted(<<"Error executing tool '">> \o name \o <<"': ">>
                       \o StrOfError(result.error))
        ELSE IF IsList(value)
        THEN IF Len(value.m) = 0
             THEN Formatted(<<"Tool '">> \o name \o <<"' returned an empty list.">>)
             ELSE IF IsDict(sample[1])
             THEN IF \E i \in 1..Len(sample) : ~IsDict(sample[i])
                  \* item.items() on an item that is not a dict
                  THEN FormatRaises("AttributeError")
                  ELSE Formatted(
                      <<"Tool '">> \o name
                      \o <<"' returned ", Numeral(Len(value.m)),
                           " items. Here's a sample:", NL>>
                      \o Join([i \in 1..Len(sample) |-> ItemsLine(sample[i])], NL))
             ELSE Formatted(
                      <<"Tool '">> \o name
                      \o <<"' returned ", Numeral(Len(value.m)),
                           " items. Here's a sample:", NL>>
                      \o Join([i \in 1..Len(sample) |-> str(sample[i])], NL))
        ELSE IF IsDict(value)
        THEN Formatted(<<"Tool '">> \o name \o <<"' returned:", NL>>
                       \o ItemsLines(value))
        ELSE Formatted(<<"Tool '">> \o name \o <<"' returned: ">> \o str(value))

\* isinstance(x, dict) and isinstance(x, list) for an argument that is a
\* value or a ToolResult object (which is neither)
IsInstanceDict(x) == "t" \in DOMAIN x /\ x.t = "obj"
IsInstanceList(x) == "t" \in DOMAIN x /\ x.t = "arr"

\* sum(1 for p in xs if p.get("type") in types)
CountType(xs, types) ==
    Cardinality({i \in 1..Len(xs) :
                    /\ HasKey(xs[i], "type")
                    /\ \E w \in types : IsWord(Get(xs[i], "type"), w)})

\* the "<n> <singular or plural>" part of a summary, if n > 0
Part(n, one, more) ==
    IF n > 0 THEN << <<Numeral(n), SP, IF n = 1 THEN one ELSE more>> >>
    ELSE <<>>

PlacesSummary(xs) ==
    LET cities   == CountType(xs, {"city"})
        towns    == CountType(xs, {"town"})
        villages == CountType(xs, {"village"})
        others   == Len(xs) - cities - towns - villages
    IN  Join(Part(cities, "city", "cities") \o Part(towns, "town", "towns")
             \o Part(villages, "village", "villages")
             \o Part(others, "other place", "other places"), ", ")

FeaturesSummary(xs) ==
    LET water   == CountType(xs, {"water", "river", "lake", "stream"})
        peaks   == CountType(xs, {"peak", "mountain"})
        forests == CountType(xs, {"wood", "forest"})
        others  == Len(xs) - water - peaks - forests
    IN  Join(Part(water, "water feature", "water features")
             \o Part(peaks, "peak", "peaks")
             \o Part(forests, "forest", "forests")
             \o Part(others, "other feature", "other features"), ", ")

\* result.get(key, default) as text
GetText(d, key, default) ==
    IF HasKey(d, key) THEN str(Get(d, key)) ELSE <<default>>

\* GoogleMapsAgent.format_tool_result(tool_name, result); process_query
\* passes the ToolResult object as result
GoogleMapsFormat(tool_name, result) ==
    IF IsWord(tool_name, "get_route") /\ IsInstanceDict(result)
    THEN IF HasKey(result, "error")
         THEN Formatted(<<"Error getting route: ">> \o str(Get(result, "error")))
         ELSE Formatted(<<"Route calculated: ">>
                        \o GetText(result, "distance_text", "unknown distance")
                        \o <<", ">>
                        \o GetText(result, "duration_text", "unknown duration"))
    ELSE IF IsWord(tool_name, "sample_polyline") /\ IsInstanceList(result)
    THEN Formatted(<<"Route sampled to ", Numeral(Len(result.m)), " points.">>)
    ELSE IF IsWord(tool_name, "get_places") /\ IsInstanceList(result)
    THEN IF Len(result.m) = 0
         THEN Formatted(<<"No places found along the route.">>)
         ELSE Formatted(<<"Found ", Numeral(Len(result.m)),
                          " places along the route: ">>
                        \o PlacesSummary(result.m))
    ELSE IF IsWord(tool_name, "get_natural_features") /\ IsInstanceList(result)
    THEN IF Len(result.m) = 0
         THEN Formatted(<<"No natural features found along the route.">>)
         ELSE Formatted(<<"Found ", Numeral(Len(result.m)),
                          " natural features along the route: ">>
                        \o FeaturesSummary(result.m))
    ELSE IF IsWord(tool_name, "render_map")
    THEN Formatted(<<"Map rendered to ">> \o StrOfToolResult(result))
    ELSE AgentFormat(tool_name, result)

format_tool_result(cls, tool_name, result) ==
    IF cls = "GoogleMapsAgent" THEN GoogleMapsFormat(tool_name, result)
    ELSE AgentFormat(tool_name, result)

(***************************************************************************)
(* The registered tools (tools/routes.py, tools/places.py,                 *)
(* tools/visualization.py): schema, keyword parameters, parameters         *)
(* without a default                                                       *)
(***************************************************************************)
Tool(required, properties, positional) ==
    [schema |-> [required |-> required, properties |-> properties],
     signature |-> DOMAIN properties, positional |-> positional]

GetRouteTool ==
    Tool({"origin", "destination"},
         [origin |-> "array", destination |-> "array", waypoints |-> "array",
          travel_mode |-> "string", avoid_tolls |-> "boolean"],
         {"origin", "destination"})

\* schema generated from the signature by register_from_function
SamplePolylineTool ==
    Tool({"encoded_polyline"},
         [encoded_polyline |-> "string", method |-> "string",
          interval_km |-> "number", every_nth |-> "integer"],
         {"encoded_polyline"})

GetPlacesTool ==
    Tool({"polyline_coords"},
         [polyline_coords |-> "array", radius_m |-> "integer",
          method |-> "string"],
         {"polyline_coords"})

RenderMapTool ==
    Tool({"polyline_coords"},
         [polyline_coords |-> "array", places |-> "array",
          features |-> "array", places_path |-> "string",
          features_path |-> "string", output_file |-> "string"],
         {"polyline_coords"})

\* create_tool_registry
TOOL_REGISTRY ==
    K("get_route") :> GetRouteTool
 @@ K("sample_polyline") :> SamplePolylineTool
 @@ K("get_places") :> GetPlacesTool
 @@ K("get_natural_features") :> GetPlacesTool
 @@ K("render_map") :> RenderMapTool

(***************************************************************************)
(* The environment: what the tools return and what the model replies       *)
(***************************************************************************)
Num(w)      == PyNum(<<w>>)
Coord(a, b) == PyList(<<Num(a), Num(b)>>)

\* GoogleMapsClient.get_route on success
RouteData ==
    PyDict(K("polyline") :> S("enc")
        @@ K("polyline_coords") :> PyList(<<Coord("1", "2"), Coord("3", "9")>>)
        @@ K("distance_text") :> S("5 km")
        @@ K("duration_text") :> S("9 mins"))

\* a route without its decoded coordinates
PartialRouteData ==
    PyDict(K("polyline") :> S("enc2") @@ K("distance_text") :> S("5 km"))

Place(type) == PyDict(K("name") :> S("Urbana") @@ K("type") :> S(type))

\* the outcomes of a call of the executable registered under a name
ToolOutcomes(name) ==
    CASE IsWord(name, "get_route") ->
           {Returns(RouteData), Returns(PartialRouteData), Faults("APIError")}
      [] IsWord(name, "sample_polyline") ->
           {Returns(PyList(<<Coord("1", "2")>>)), Returns(PyList(<<>>)),
            Returns(S("none"))}
      [] IsWord(name, "get_places") ->
           {Returns(PyList(<<Place("city")>>)), Returns(PyList(<<>>))}
      [] IsWord(name, "get_natural_features") ->
           {Returns(PyList(<<Place("river")>>)),
            Faults("InvalidToolInputError")}
      [] IsWord(name, "render_map") ->
           {Returns(S("route_map.html")), Faults("ValidationError")}
      [] OTHER -> {Returns(None)}

\* JSON text
Quoted(w) == <<DQ, w, DQ>>

ActionJSON(tool, tool_input) ==
    <<"{">> \o Quoted("tool") \o <<":", SP>> \o Quoted(tool) \o <<",", SP>>
    \o Quoted("tool_input") \o <<":", SP>> \o tool_input \o <<",", SP>>
    \o Quoted("reasoning") \o <<":", SP>> \o Quoted("r") \o <<"}">>

Block(json) == <<OPEN>> \o json \o <<CLOSE>>

TextInput(w) == <<"{">> \o Quoted("text") \o <<":", SP>> \o w \o <<"}">>

\* the replies of the model
ReplyAnswer     == Block(ActionJSON("answer", TextInput(Quoted("done"))))
ReplyNoText     == Block(ActionJSON("answer", <<"{", "}">>))
ReplyNumber     == Block(ActionJSON("answer", TextInput(<<"42">>)))
ReplyMalformed  == <<"I", SP, "will", SP>> \o Block(<<"{", DQ, "tool", DQ, ":">>)
ReplyUnknown    == Block(ActionJSON("echo", TextInput(Quoted("hi"))))
ReplyRoute      ==
    Block(ActionJSON("get_route",
        <<"{">> \o Quoted("origin") \o <<":", "[", "1", ",", "2", "]", ",">>
        \o Quoted("destination") \o <<":", "[", "3", ",", "9", "]", "}">>))
ReplySample     == Block(ActionJSON("sample_polyline", <<"{", "}">>))
ReplyPlaces     == Block(ActionJSON("get_places", <<"{", "}">>))
ReplyFeatures   == Block(ActionJSON("get_natural_features", <<"{", "}">>))
ReplyRender     == Block(ActionJSON("render_map", <<"{", "}">>))

Replies ==
    {ReplyAnswer, ReplyNoText, ReplyNumber, ReplyMalformed, ReplyUnknown,
     ReplyRoute, ReplySample, ReplyPlaces, ReplyFeatures, ReplyRender}

Queries == {S("start")}

(***************************************************************************)
(* core/llm_client.py and the model calls of process_query                 *)
(***************************************************************************)
SystemPrompt == S("system_prompt")

\* a context built before the latest message was stored
ContextBehind(msgs) ==
    <<[role |-> "system", content |-> SystemPrompt]>>
    \o get_conversation_history(SubSeq(msgs, 1, Len(msgs) - 1))

\* messages = [system prompt] + memory.get_conversation_history()
Context(msgs) ==
    <<[role |-> "system", content |-> SystemPrompt]>>
    \o get_conversation_history(msgs)

ChunkSize == 10

\* MockLLMClient.chat: the scripted reply wrapped as a response
chat(response) ==
    [choices |-> <<[message |-> [role |-> "assistant", content |-> response]]>>]

\* BaseLLMClient.extract_content of a response with choices
extract_content(response) == response.choices[1].message.content

\* MockLLMClient.stream_chat: the chunks of the scripted reply, in order
RECURSIVE stream_chat(_)
stream_chat(response) ==
    IF response = <<>> THEN <<>>
    ELSE <<SubSeq(response, 1, Min(ChunkSize, Len(response)))>>
         \o stream_chat(SubSeq(response, Min(ChunkSize, Len(response)) + 1,
                                Len(response)))

RECURSIVE _stream_llm_response(_)
\* a reader that returns at the first chunk
StreamFirstChunk(chunks) ==
    IF chunks = <<>> THEN <<>> ELSE chunks[1]

\* Agent._stream_llm_response: full_response += chunk, for every chunk
_stream_llm_response(chunks) ==
    IF chunks = <<>> THEN <<>>
    ELSE chunks[1] \o _stream_llm_response(Tail(chunks))

(***************************************************************************)
(* State                                                                   *)
(***************************************************************************)
\* largest max_iterations an agent is configured with
MaxIterations == 2
\* model replies available to an agent over its life
MaxModelCalls == 3
\* queries put to an agent over its life
MaxQueries == 2

\* max_conversation_history of the MemoryStore: its default, and small ones
MaxMessagesChoices == {0, 2, DefaultMaxMessages}

AgentClasses == {"Agent", "GoogleMapsAgent"}

Fallback == S("I couldn't determine an answer to your query.")
Unavailable == S("LLM client is not available.")

VARIABLES
    cls,             \* the class of the agent
    registry,        \* tool_registry.tools
    max_iterations,  \* agent.max_iterations
    max_messages,    \* memory.conversation.max_messages
    messages,        \* memory.conversation.messages
    data,            \* memory.data
    pc,              \* where process_query is
    query,           \* process_query's parameter
    mark,            \* the number of messages added before the current query
    response_text,   \* process_query's local: the reply of the model
    action,          \* process_query's local: the extracted action
    iterations,      \* process_query's local: the loop counter
    returned,        \* the value process_query returned
    raised,          \* the exception process_query let escape
    model_calls,     \* calls of chat/stream_chat in the current query
    tool_rounds,     \* calls of execute_action in the current query
    registry_calls,  \* calls of ToolRegistry.execute in the current query
    round,           \* what the last tool round did
    added,           \* every message handed to MemoryStore.add_message
    replies_used,    \* model replies consumed so far
    queries,         \* queries started so far
    available,       \* what llm_client.is_available() said to the current query
    calls,           \* the calls of the MemoryStore API so far, with their results
    stream,          \* process_query's parameter
    context          \* process_query's local: the messages of the last model call

vars == <<cls, registry, max_iterations, max_messages, messages, data, pc,
          query, mark, response_text, action, iterations, returned, raised, model_calls,
          tool_rounds, registry_calls, round, added, replies_used, queries,
          available, now, calls, stream, context>>

config == <<cls, registry, max_iterations, max_messages>>

\* what a tool round did: the action it was given, the input after
\* injection, the outcome of ToolRegistry.execute, the ToolResult of
\* execute_action, the keyed memory before the round, the observation text
Round(tool, given, done, before, observation) ==
    [tool |-> tool, given |-> given, tool_input |-> done.tool_input,
     exec |-> done.exec, result |-> done.result, before |-> before,
     observation |-> observation]

NoRound ==
    Round(None, EmptyDict,
          [tool_input |-> EmptyDict,
           exec |-> Executed(NoError, NoResult, FALSE, 0, NotCalled),
           result |-> NoResult],
          <<>>, <<>>)

Init ==
    /\ cls \in AgentClasses
    /\ registry = TOOL_REGISTRY
    /\ max_iterations \in 0..MaxIterations
    /\ max_messages \in MaxMessagesChoices
    /\ messages = <<>>
    /\ data = <<>>
    /\ pc = "idle"
    /\ query = None
    /\ mark = 0
    /\ response_text = <<>>
    /\ action = EmptyDict
    /\ iterations = 0
    /\ returned = None
    /\ raised = NoError
    /\ model_calls = 0
    /\ tool_rounds = 0
    /\ registry_calls = 0
    /\ round = NoRound
    /\ added = <<>>
    /\ replies_used = 0
    /\ queries = 0
    /\ available = TRUE
    /\ now = 0
    /\ calls = <<>>
    /\ stream = FALSE
    /\ context = <<>>

(***************************************************************************)
(* Agent.process_query, one action per step between two calls of the       *)
(* model or of a tool                                                      *)
(***************************************************************************)
\* Agent.add_message: the log line slices the content, which raises
\* TypeError for content that is neither a str nor a list
CanSlice(content) == content.t \in {"str", "arr"}

AddMessage(role, content) ==
    /\ messages' = ConversationAdd(messages, max_messages, Message(role, content))
    /\ added' = Append(added, Message(role, content))

\* a process_query that stores the query before it asks the client whether
\* the model is available
StartQueryStoresFirst(q, is_available, use_stream) ==
    /\ pc \in {"idle", "returned", "raised"}
    /\ queries < MaxQueries
    /\ replies_used + max_iterations + 1 <= MaxModelCalls
    /\ queries' = queries + 1
    /\ query' = q
    /\ mark' = Len(added)
    /\ model_calls' = 0
    /\ tool_rounds' = 0
    /\ registry_calls' = 0
    /\ raised' = NoError
    /\ available' = is_available
    /\ stream' = use_stream
    /\ AddMessage("user", q)
    /\ IF is_available
       THEN /\ pc' = "await_model"
            /\ returned' = None
       ELSE /\ pc' = "returned"
            /\ returned' = Unavailable
    /\ UNCHANGED <<config, now, calls, context, data, response_text, action, iterations,
                   round, replies_used>>

\* lines 370-374: process_query is called.  A query is put only while the
\* model has the replies left that its loop can ask for.
StartQuery(q, is_available, use_stream) ==
    /\ pc \in {"idle", "returned", "raised"}
    /\ queries < MaxQueries
    /\ replies_used + max_iterations + 1 <= MaxModelCalls
    /\ queries' = queries + 1
    /\ query' = q
    /\ mark' = Len(added)
    /\ model_calls' = 0
    /\ tool_rounds' = 0
    /\ registry_calls' = 0
    /\ raised' = NoError
    /\ available' = is_available
    /\ stream' = use_stream
    /\ IF is_available
       THEN /\ AddMessage("user", q)
            /\ pc' = "await_model"
            /\ returned' = None
       ELSE /\ pc' = "returned"
            /\ returned' = Unavailable
            /\ UNCHANGED <<messages, added>>
    /\ UNCHANGED <<config, now, calls, context, data, response_text, action, iterations,
                   round, replies_used>>

\* a call of the model that also stores the reply in the conversation
ModelCallStoresReply(reply) ==
    /\ pc = "await_model"
    /\ replies_used < MaxModelCalls
    /\ context' = Context(messages)
    /\ response_text' = IF stream
                        THEN _stream_llm_response(stream_chat(reply))
                        ELSE extract_content(chat(reply))
    /\ model_calls' = model_calls + 1
    /\ replies_used' = replies_used + 1
    /\ pc' = "have_text"
    /\ AddMessage("assistant", PyStr(reply))
    /\ UNCHANGED <<config, available, now, calls, stream, query, mark, data, action, iterations, returned,
                   raised, tool_rounds, registry_calls, round, queries>>

\* lines 376-387 and 407-418: the model is called with the system prompt
\* and the history, and replies, in chunks if process_query streams
ModelCall(reply) ==
    /\ pc = "await_model"
    /\ replies_used < MaxModelCalls
    /\ context' = Context(messages)
    /\ response_text' = IF stream
                        THEN _stream_llm_response(stream_chat(reply))
                        ELSE extract_content(chat(reply))
    /\ model_calls' = model_calls + 1
    /\ replies_used' = replies_used + 1
    /\ pc' = "have_text"
    /\ UNCHANGED <<config, available, now, calls, stream, query, mark, messages, data, action, iterations,
                   returned, raised, tool_rounds, registry_calls, round, added,
                   queries>>

\* lines 392-395 (first reply) and 423-424 (later replies)
Extract ==
    /\ pc = "have_text"
    /\ \E r \in {extract_action(response_text)} :
           IF r.raised
           THEN /\ pc' = "raised"
                /\ raised' = r.error
                /\ UNCHANGED <<action, iterations>>
           ELSE /\ pc' = "loop_test"
                /\ action' = r.action
                /\ iterations' = IF model_calls = 1 THEN 0 ELSE iterations + 1
                /\ UNCHANGED raised
    /\ UNCHANGED <<config, available, now, calls, stream, context, query, mark, messages, data, response_text,
                   returned, model_calls, tool_rounds, registry_calls, round,
                   added, replies_used, queries>>

\* the loop test without its bound on iterations
LoopConditionNoCap ==
    ~IsWord(Get(action, "tool"), "answer")

\* line 396
LoopCondition ==
    ~IsWord(Get(action, "tool"), "answer") /\ iterations < max_iterations

\* the loop body around an execute_action that lets the exceptions of
\* ToolRegistry.execute through
ExecuteAndObserveUncaught(outcome) ==
    /\ \E done \in {execute_action(cls, registry, data, action, outcome)} :
       \E fmt \in {format_tool_result(cls, Get(action, "tool"), done.result)} :
       LET tool_name == Get(action, "tool")
           content   == PyStr(<<"Observation: ">> \o fmt.text)
       IN  /\ data' = done.store
           /\ tool_rounds' = tool_rounds + 1
           /\ registry_calls' = registry_calls + 1
           /\ action' = done.action
           /\ round' = Round(tool_name, Get(action, "tool_input"), done, data,
                             fmt.text)
           /\ IF done.exec.raised # NoError
              THEN /\ pc' = "raised"
                   /\ raised' = done.exec.raised
                   /\ UNCHANGED <<messages, added>>
              ELSE /\ pc' = "await_model"
                   /\ AddMessage("assistant", content)
                   /\ UNCHANGED raised
    /\ UNCHANGED <<config, available, now, calls, stream, context, query, mark, response_text, iterations, returned,
                   model_calls, replies_used, queries>>

\* lines 398-405: the loop body up to the next call of the model
ExecuteAndObserve(outcome) ==
    /\ \E done \in {execute_action(cls, registry, data, action, outcome)} :
       \E fmt \in {format_tool_result(cls, Get(action, "tool"), done.result)} :
       LET tool_name == Get(action, "tool")
           content   == PyStr(<<"Observation: ">> \o fmt.text)
       IN  /\ data' = done.store
           /\ tool_rounds' = tool_rounds + 1
           /\ registry_calls' = registry_calls + 1
           /\ action' = done.action
           /\ round' = Round(tool_name, Get(action, "tool_input"), done, data,
                             fmt.text)
           /\ IF fmt.raised # NoError
              THEN /\ pc' = "raised"
                   /\ raised' = fmt.raised
                   /\ UNCHANGED <<messages, added>>
              ELSE /\ pc' = "await_model"
                   /\ AddMessage("assistant", content)
                   /\ UNCHANGED raised
    /\ UNCHANGED <<config, available, now, calls, stream, context, query, mark, response_text, iterations, returned,
                   model_calls, replies_used, queries>>

ToolRound ==
    /\ pc = "loop_test"
    /\ LoopCondition
    /\ \E outcome \in ToolOutcomes(Get(action, "tool")) :
          ExecuteAndObserve(outcome)

\* lines 427-434
Finish ==
    /\ pc = "loop_test"
    /\ ~LoopCondition
    /\ LET tool_input   == Get(action, "tool_input")
           text         == IF HasKey(tool_input, "text")
                           THEN Get(tool_input, "text") ELSE PyStr(<<>>)
           final_answer == IF Truthy(text) THEN text ELSE Fallback
       IN  IF CanSlice(final_answer)
           THEN /\ AddMessage("assistant", final_answer)
                /\ returned' = final_answer
                /\ pc' = "returned"
                /\ UNCHANGED raised
           ELSE /\ raised' = Exception("TypeError")
                /\ pc' = "raised"
                /\ UNCHANGED <<messages, added, returned>>
    /\ UNCHANGED <<config, available, now, calls, stream, context, query, mark, data, response_text, action,
                   iterations, model_calls, tool_rounds, registry_calls, round,
                   replies_used, queries>>

Next ==
    \/ \E q \in Queries, is_available \in BOOLEAN, use_stream \in BOOLEAN :
          StartQuery(q, is_available, use_stream)
    \/ \E reply \in Replies : ModelCall(reply)
    \/ Extract
    \/ ToolRound
    \/ Finish

Spec == Init /\ [][Next]_vars

(***************************************************************************)
(* Agent.execute_action as a function of its inputs: the agent is          *)
(* constructed over a memory store and a registry and is handed one        *)
(* action                                                                  *)
(***************************************************************************)
\* a key of the store: absent, or present with a value
Absent == [present |-> FALSE, value |-> None]
Present(values) == {[present |-> TRUE, value |-> v] : v \in values}

Entry(key, e) ==
    IF e.present THEN key :> MemoryItem(e.value, None, now) ELSE <<>>

Stores ==
    {Entry("encoded_polyline", ep) @@ Entry("polyline_coords", pc_)
     @@ Entry("places", pl) @@ Entry("features", ft) :
        ep \in {Absent} \cup Present({S("enc"), PyStr(<<>>)}),
        pc_ \in {Absent} \cup Present({PyList(<<Coord("1", "2")>>), PyList(<<>>)}),
        pl \in {Absent} \cup Present({PyList(<<Place("city")>>), PyList(<<>>)}),
        ft \in {Absent} \cup Present({PyList(<<Place("river")>>)})}

ToolNames ==
    {S("get_route"), S("sample_polyline"), S("get_places"),
     S("get_natural_features"), S("render_map"), S("echo"), Num("3"),
     PyList(<<S("get_places")>>)}

ToolInputs ==
    {EmptyDict,
     PyDict(K("text") :> S("hi")),
     PyDict(K("encoded_polyline") :> S("xyz")),
     PyDict(K("polyline_coords") :> PyList(<<Coord("9", "9")>>)),
     PyDict(K("polyline_coords") :> S("here")),
     PyDict(K("polyline_coords") :> PyList(<<Coord("9", "9")>>)
         @@ K("places_path") :> S("p.json")),
     PyDict(K("places") :> PyList(<<Place("town")>>)
         @@ K("features") :> PyList(<<>>)),
     PyDict(K("origin") :> Coord("1", "2") @@ K("destination") :> Coord("3", "9"))}

ActionOf(tool, tool_input) ==
    PyDict(K("tool") :> tool @@ K("tool_input") :> tool_input
        @@ K("reasoning") :> S("r"))

InitExecute ==
    /\ now = 0
    /\ cls \in AgentClasses
    /\ registry = TOOL_REGISTRY
    /\ max_iterations = MaxIterations
    /\ max_messages = DefaultMaxMessages
    /\ messages = <<>>
    /\ data \in Stores
    /\ pc = "execute_action"
    /\ query = None
    /\ mark = 0
    /\ response_text = <<>>
    /\ action \in {ActionOf(n, i) : n \in ToolNames, i \in ToolInputs}
    /\ iterations = 0
    /\ returned = None
    /\ raised = NoError
    /\ model_calls = 0
    /\ tool_rounds = 0
    /\ registry_calls = 0
    /\ round = NoRound
    /\ added = <<>>
    /\ replies_used = 0
    /\ queries = 0
    /\ available = TRUE
    /\ calls = <<>>
    /\ stream = FALSE
    /\ context = <<>>

\* one call of execute_action, and the observation made of its result
ExecuteAction ==
    /\ pc = "execute_action"
    /\ \E outcome \in ToolOutcomes(Get(action, "tool")) :
          \E done \in {execute_action(cls, registry, data, action, outcome)} :
          \E fmt \in {format_tool_result(cls, Get(action, "tool"), done.result)} :
          LET tool_name == Get(action, "tool")
          IN  /\ data' = done.store
              /\ action' = done.action
              /\ round' = Round(tool_name, Get(action, "tool_input"), done,
                                data, fmt.text)
              /\ raised' = fmt.raised
    /\ pc' = "executed"
    /\ tool_rounds' = tool_rounds + 1
    /\ registry_calls' = registry_calls + 1
    /\ UNCHANGED <<config, available, now, calls, stream, context, query, mark, messages, response_text, iterations,
                   returned, model_calls, added, replies_used, queries>>

NextExecute == ExecuteAction

SpecExecute == InitExecute /\ [][NextExecute]_vars

(***************************************************************************)
(* The MemoryStore API called directly: remember, forget, add_message,     *)
(* and a restore of the store from a snapshot                              *)
(***************************************************************************)
\* calls of the MemoryStore API made on a store
MaxCalls == 3
\* the latest time the clock shows
MaxClock == 1

M1 == PyDict(K("a") :> PyNum(<<"1">>) @@ K("b") :> PyNum(<<"1">>))
M2 == PyDict(K("a") :> PyNum(<<"2">>) @@ K("c") :> PyNum(<<"3">>))

\* the arguments of the calls of remember
Remembers ==
    { [key |-> "k1", value |-> S("v1"), metadata |-> M1],
      [key |-> "k1", value |-> S("v2"), metadata |-> M2],
      [key |-> "k1", value |-> PyNum(<<"0">>), metadata |-> None],
      [key |-> "k2", value |-> S("v1"), metadata |-> None],
      [key |-> "k2", value |-> PyList(<<S("v2")>>), metadata |-> M1] }

MemoryKeys == {r.key : r \in Remembers}

\* the arguments of the calls of add_message
AddMessages ==
    { [role |-> "user", content |-> S("hi"), metadata |-> None],
      [role |-> "assistant", content |-> PyStr(<<DQ, "hi", DQ, NL>>),
       metadata |-> M1] }

\* snapshot texts that no to_json wrote
Malformed == { <<"{", DQ, "data", DQ, ":">>, <<"[", "]">> }

\* the variables of process_query
process == <<cls, registry, max_iterations, pc, query, mark, response_text,
             action, iterations, returned, raised, model_calls, tool_rounds,
             registry_calls, round, added, replies_used, queries, available,
             stream, context>>

\* a call of the API: its arguments, the value it returned, the store when
\* it was made
Call(op, args, result) ==
    [op |-> op, args |-> args, result |-> result,
     before |-> [data |-> data, messages |-> messages,
                 max_messages |-> max_messages]]

InitMemory ==
    /\ cls = "Agent"
    /\ registry = TOOL_REGISTRY
    /\ max_iterations = MaxIterations
    /\ max_messages \in {2, DefaultMaxMessages}
    /\ messages = <<>>
    /\ data = <<>>
    /\ pc = "idle"
    /\ query = None
    /\ mark = 0
    /\ response_text = <<>>
    /\ action = EmptyDict
    /\ iterations = 0
    /\ returned = None
    /\ raised = NoError
    /\ model_calls = 0
    /\ tool_rounds = 0
    /\ registry_calls = 0
    /\ round = NoRound
    /\ added = <<>>
    /\ replies_used = 0
    /\ queries = 0
    /\ available = TRUE
    /\ now = 0
    /\ calls = <<>>
    /\ stream = FALSE
    /\ context = <<>>

\* time passes
Tick ==
    /\ now < MaxClock
    /\ now' = now + 1
    /\ UNCHANGED <<process, max_messages, messages, data, calls>>

\* memory.remember(key, value, metadata)
Remember(r) ==
    /\ Len(calls) < MaxCalls
    /\ data' = remember_at(data, r.key, r.value, r.metadata, now)
    /\ calls' = Append(calls, Call("remember", r, None))
    /\ UNCHANGED <<process, max_messages, messages, now>>

\* memory.forget(key)
Forget(key) ==
    /\ Len(calls) < MaxCalls
    /\ \E f \in {forget(data, key)} :
          /\ data' = f.store
          /\ calls' = Append(calls, Call("forget", [key |-> key],
                                 IF f.result THEN PyLit("true")
                                 ELSE PyLit("false")))
    /\ UNCHANGED <<process, max_messages, messages, now>>

\* memory.add_message(role, content, metadata)
MemoryAddMessage(m) ==
    /\ Len(calls) < MaxCalls
    /\ messages' = ConversationAdd(messages, max_messages,
                        MessageAt(m.role, m.content, m.metadata, now))
    /\ calls' = Append(calls, Call("add_message", m, None))
    /\ UNCHANGED <<process, max_messages, data, now>>

\* memory = MemoryStore.from_json(text), where the text is the snapshot
\* memory.to_json() has just written or a malformed one; a MemoryError
\* leaves the store the caller has
Restore ==
    /\ Len(calls) < MaxCalls
    /\ \E text \in {to_json(data, messages)} \cup Malformed :
       \E r \in {from_json(text, now)} :
          /\ IF r.raised = NoError
             THEN /\ data' = r.data
                  /\ messages' = r.messages
                  /\ max_messages' = r.max_messages
             ELSE UNCHANGED <<data, messages, max_messages>>
          /\ calls' = Append(calls, Call("from_json", [text |-> text],
                                 IF r.raised = NoError THEN None
                                 ELSE S(r.raised.type)))
    /\ UNCHANGED <<process, now>>

NextMemory ==
    \/ Tick
    \/ \E r \in Remembers : Remember(r)
    \/ \E key \in MemoryKeys : Forget(key)
    \/ \E m \in AddMessages : MemoryAddMessage(m)
    \/ Restore

SpecMemory == InitMemory /\ [][NextMemory]_vars

(***************************************************************************)
(* Agent.extract_action as a function of the reply text                   *)
(***************************************************************************)
\* the tool_input of a reply, written with the quote q
InputKinds ==
    {"empty", "text", "words", "number", "list", "comma", "array",
     "apostrophe", "closer", "newline"}

InputJSON(kind, q) ==
    CASE kind = "empty"  -> <<"{", "}">>
      [] kind = "text"   -> <<"{", q, "text", q, ":", SP, q, "done", q, "}">>
      [] kind = "words"  ->
           <<"{", q, "text", q, ":", SP, q, "two", SP, "words", q, "}">>
      [] kind = "number" -> <<"{", q, "a", q, ":", SP, "1", "}">>
      [] kind = "list"   ->
           <<"{", q, "a", q, ":", SP, "[", "1", ",", SP, "2", "]", "}">>
      [] kind = "comma"  -> <<"{", q, "a", q, ":", SP, "1", ",", "}">>
      [] kind = "array"  ->
           <<"{", q, "a", q, ":", SP, "[", "1", ",", SP, "2", ",", SP, "]", "}">>
      [] kind = "apostrophe" ->
           <<"{", q, "text", q, ":", SP, q, "it", SQ, "s", q, "}">>
      [] kind = "closer" ->
           <<"{", q, "text", q, ":", SP, q, "a", ",", "}", q, "}">>
      [] kind = "newline" ->
           <<"{", q, "text", q, ":", SP, q, "a", NL, "b", q, "}">>

\* the JSON of an action: quote q, tokens tail before the closing brace,
\* which is there or not
ReplyJSON(r) ==
    <<"{">> \o <<r.q, "tool", r.q, ":", SP, r.q, r.tool, r.q, ",", NL>>
    \o <<r.q, "tool_input", r.q, ":", SP>> \o InputJSON(r.kind, r.q)
    \o <<",", NL, r.q, "reasoning", r.q, ":", SP, r.q, "r", r.q>>
    \o r.tail \o (IF r.closed THEN <<"}">> ELSE <<>>)

\* a reply with an action block: text before it, padding inside the tags,
\* text or another block after it
ReplyText(r) ==
    r.prefix \o Block(r.pad \o ReplyJSON(r) \o r.pad) \o r.suffix

BlockReplies ==
    [prefix : {<<>>, <<SP, "I", SP, "will", NL>>},
     pad    : {<<>>, <<NL, SP>>},
     q      : {DQ, SQ},
     tool   : {"answer", "get_route"},
     kind   : InputKinds,
     tail   : {<<>>, <<",">>, <<",", NL, SP>>},
     closed : BOOLEAN,
     suffix : {<<>>, <<NL>> \o ReplyUnknown, <<SP>> \o ReplyMalformed}]

\* replies without an action block
PlainReplies ==
    { <<>>,
      <<"just", SP, "an", SP, "answer">>,
      <<NL, SP, "just", SP, "an", SP, "answer", SP, NL>>,
      <<SP, OPEN>> \o ActionJSON("answer", <<"{", "}">>),
      <<CLOSE, SP, "then", SP, OPEN, NL>>,
      ActionJSON("get_route", <<"{", "}">>) \o <<NL>> }

\* the tool_input of a reply whose object lacks keys: not there, or a
\* string, a number, null, a list, a dict
PartialInputs == {"absent", "string", "number", "null", "list", "dict"}

PartialInputJSON(kind) ==
    CASE kind = "string" -> Quoted("cafes")
      [] kind = "number" -> <<"42">>
      [] kind = "null"   -> <<"null">>
      [] kind = "list"   -> <<"[", "1", ",", SP, DQ, "b", DQ, "]">>
      [] kind = "dict"   -> <<"{", "}">>

\* a reply whose object has some of the keys tool, tool_input, reasoning
PartialReplyText(r) ==
    LET tool      == IF r.has_tool
                     THEN <<Quoted("tool") \o <<":", SP>> \o Quoted("get_places")>>
                     ELSE <<>>
        input     == IF r.input # "absent"
                     THEN <<Quoted("tool_input") \o <<":", SP>>
                            \o PartialInputJSON(r.input)>>
                     ELSE <<>>
        reasoning == IF r.has_reasoning
                     THEN <<Quoted("reasoning") \o <<":", SP>> \o Quoted("r")>>
                     ELSE <<>>
    IN  Block(<<"{">> \o Join(tool \o input \o reasoning, ",") \o <<"}">>)

PartialReplies ==
    [has_tool : BOOLEAN, input : PartialInputs, has_reasoning : BOOLEAN]

ReplyTexts ==
    {ReplyText(r) : r \in BlockReplies}
    \cup {PartialReplyText(r) : r \in PartialReplies}
    \cup PlainReplies

InitExtract ==
    /\ cls = "Agent"
    /\ registry = TOOL_REGISTRY
    /\ max_iterations = MaxIterations
    /\ max_messages = DefaultMaxMessages
    /\ messages = <<>>
    /\ data = <<>>
    /\ pc = "extract_action"
    /\ query = None
    /\ mark = 0
    /\ response_text \in ReplyTexts
    /\ action = EmptyDict
    /\ iterations = 0
    /\ returned = None
    /\ raised = NoError
    /\ model_calls = 0
    /\ tool_rounds = 0
    /\ registry_calls = 0
    /\ round = NoRound
    /\ added = <<>>
    /\ replies_used = 0
    /\ queries = 0
    /\ available = TRUE
    /\ now = 0
    /\ calls = <<>>
    /\ stream = FALSE
    /\ context = <<>>

\* one call of extract_action
ExtractAction ==
    /\ pc = "extract_action"
    /\ \E r \in {extract_action(response_text)} :
          /\ action' = r.action
          /\ raised' = r.error
          /\ pc' = IF r.raised THEN "raised" ELSE "returned"
    /\ UNCHANGED <<config, available, now, calls, stream, context, query, mark, messages, data,
                   response_text, iterations, returned, model_calls,
                   tool_rounds, registry_calls, round, added, replies_used,
                   queries>>

NextExtract == ExtractAction

SpecExtract == InitExtract /\ [][NextExtract]_vars

(***************************************************************************)
(* Properties of process_query                                             *)
(***************************************************************************)
Running == {"await_model", "have_text", "loop_test"}

\* a measure of what is left of a query: the tool rounds it may still run,
\* and the steps up to the next loop test
Stage ==
    CASE pc = "await_model" -> 3
      [] pc = "have_text"   -> 2
      [] pc = "loop_test"   -> 1
      [] OTHER              -> 0

Rank == 4 * (max_iterations - tool_rounds) + Stage

\* a step of a running query lowers the measure
RankFalls == pc \in Running => Rank' < Rank

\* C1: process_query terminates whatever the model replies: iterations is 0
\* at the first loop test of a query and one more at each later one, a query
\* runs at most max_iterations tool rounds, each with one call of
\* ToolRegistry.execute, and calls the model at most max_iterations + 1
\* times; every step of a query lowers a measure that never falls below 0.
C1_Terminates ==
    /\ [](/\ tool_rounds <= max_iterations
          /\ registry_calls = tool_rounds
          /\ model_calls <= max_iterations + 1
          /\ Rank >= 0
          /\ pc = "loop_test" =>
                 /\ iterations = tool_rounds
                 /\ model_calls = tool_rounds + 1)
    /\ [][RankFalls]_vars

\* a query that ran max_iterations tool rounds and has returned
C1_Witness ==
    /\ pc = "returned"
    /\ max_iterations >= 2
    /\ tool_rounds = max_iterations
    /\ model_calls = max_iterations + 1

\* the loop test fails on the bound while the last action is no answer
AtCap ==
    /\ pc = "loop_test"
    /\ ~IsWord(Get(action, "tool"), "answer")
    /\ iterations >= max_iterations

FallbackAtCap == AtCap => (pc' = "returned" /\ returned' = Fallback)

\* C2: when the loop stops on the bound with a last action that is no
\* answer, process_query returns the fixed fallback string and raises
\* nothing, whatever the tool_input of that action holds.
C2_FallbackAtCap == [][FallbackAtCap]_vars

ParsingErrorObserved ==
    (pc = "have_text" /\ extract_action(response_text).raised) =>
        /\ pc' = "await_model"
        /\ raised' = NoError
        /\ Len(added') = Len(added) + 1
        /\ added'[Len(added')].role = "assistant"

\* C4: a ParsingError raised by extract_action is caught inside
\* process_query: an observation is appended to the conversation, the loop
\* goes on with another call of the model, and the error does not reach
\* the caller.
C4_ParsingErrorCaught == [][ParsingErrorObserved]_vars

\* the last n elements of xs
LastN(xs, n) == [i \in 1..n |-> xs[Len(xs) - n + i]]

\* C7: for every max_messages and every sequence of add_message calls the
\* conversation holds at most max_messages messages, and they are the most
\* recent min(n, max_messages) of the n messages added, in their order.
C7_Trimmed ==
    /\ Len(messages) <= max_messages
    /\ messages = LastN(added, Min(Len(added), max_messages))

(***************************************************************************)
(* Properties of the tool round                                            *)
(***************************************************************************)
\* the tool of a round is registered and its input passes the schema
RoundRegistered(r) == Registered(registry, r.tool)

RoundValid(r) ==
    RoundRegistered(r) /\ SchemaValid(registry[r.tool.s].schema, r.tool_input)

\* C3: whatever a registered tool's executable throws on a validated input,
\* ToolRegistry.execute returns: the ToolResult has success = false, its
\* error is a ToolExecutionError and its metadata holds the cause and the
\* trace.
C3_FaultContained ==
    (pc = "executed" /\ RoundValid(round)
     /\ CanBind(registry[round.tool.s], round.tool_input)
     /\ round.exec.outcome.kind = "raise") =>
        /\ round.exec.raised = NoError
        /\ ~round.exec.result.success
        /\ round.exec.result.error.type = "ToolExecutionError"
        /\ {"cause", "traceback"} \subseteq round.exec.result.metadata

\* xs ends with ys
EndsWith(xs, ys) ==
    /\ Len(ys) <= Len(xs)
    /\ SubSeq(xs, Len(xs) - Len(ys) + 1, Len(xs)) = ys

DispatchFailureObserved ==
    /\ (pc = "loop_test" /\ LoopCondition /\ ~RoundValid(round')) =>
           /\ pc' = "await_model"
           /\ raised' = NoError
           /\ ~round'.result.success
           /\ round'.result.error.type \in
                  {"ToolNotFoundError", "ToolExecutionError"}
           /\ tool_rounds' = tool_rounds + 1
           /\ Len(added') = Len(added) + 1
           /\ LET m == added'[Len(added')]
              IN  /\ m.role = "assistant"
                  /\ m.content.t = "str"
                  /\ m.content.s[1] = "Observation: "
                  /\ EndsWith(m.content.s, StrOfError(round'.result.error))
    /\ (pc = "have_text" /\ pc' = "loop_test" /\ tool_rounds > 0) =>
           iterations' = iterations + 1

\* C5: an action that names an unregistered tool, or whose input fails the
\* tool's schema, lets no exception leave process_query: execute_action
\* returns a ToolResult with success = false, an assistant message
\* "Observation: " followed by a description of the error is appended,
\* the model is asked again and iterations is one more at the next loop
\* test.
C5_DispatchFailureObserved == [][DispatchFailureObserved]_vars

\* a round whose input failed the schema has been observed
C5_Witness ==
    /\ pc = "await_model"
    /\ tool_rounds > 0
    /\ RoundRegistered(round)
    /\ ~RoundValid(round)
    /\ round.result.error.cause_type = "InvalidToolInputError"

\* C6: ToolRegistry.execute looks the tool up, then validates, then calls:
\* an unregistered name raises ToolNotFoundError without validation or
\* call; a registered tool with an input that fails its schema raises
\* InvalidToolInputError without a call; otherwise the executable is
\* called exactly once, and when it returns, the ToolResult has
\* success = true and carries the returned value.
C6_LookupValidateInvoke ==
    (pc = "executed" /\ round.tool.t \notin {"arr", "obj"}) =>
        LET e == round.exec
        IN  IF ~RoundRegistered(round)
            THEN /\ e.raised = ToolNotFoundError(round.tool)
                 /\ ~e.validated
                 /\ e.invoked = 0
            ELSE IF ~RoundValid(round)
            THEN /\ e.raised.type = "InvalidToolInputError"
                 /\ e.validated
                 /\ e.invoked = 0
            ELSE /\ e.validated
                 /\ e.invoked = 1
                 /\ e.outcome.kind = "return" =>
                        /\ e.raised = NoError
                        /\ e.result.success
                        /\ e.result.result = e.outcome.value

\* a registered tool refused an input without calling its executable
C6_Witness ==
    /\ pc = "executed"
    /\ RoundRegistered(round)
    /\ ~RoundValid(round)
    /\ round.exec.invoked = 0
    /\ round.exec.raised.type = "InvalidToolInputError"

\* C9: injection only adds keys: every key of the given tool_input is in
\* the injected one with its value, and the dict the caller passed is as
\* it was, for both classes of agent.
C9_InjectionOnlyAdds ==
    pc = "executed" =>
        /\ \A k \in DOMAIN round.given.m :
              /\ k \in DOMAIN round.tool_input.m
              /\ round.tool_input.m[k] = round.given.m[k]
        /\ Get(action, "tool_input") = round.given

\* a field was injected next to a key the caller gave
C9_Witness ==
    /\ pc = "executed"
    /\ DOMAIN round.given.m # {}
    /\ DOMAIN round.tool_input.m # DOMAIN round.given.m

\* the rules of injection: tool, field of the input, key of the memory
InjectionRules ==
    {[tool |-> "sample_polyline", field |-> "encoded_polyline",
      key |-> "encoded_polyline"],
     [tool |-> "get_places", field |-> "polyline_coords",
      key |-> "polyline_coords"],
     [tool |-> "get_natural_features", field |-> "polyline_coords",
      key |-> "polyline_coords"],
     [tool |-> "render_map", field |-> "polyline_coords",
      key |-> "polyline_coords"]}

\* C10: for each rule, when the field is missing from the given tool_input
\* and the key is in the memory, the injected tool_input has the field
\* with the recalled value, whatever value is stored under the key.
C10_InjectsRecalled ==
    pc = "executed" =>
        \A rule \in InjectionRules :
            (/\ IsWord(round.tool, rule.tool)
             /\ ~HasKey(round.given, rule.field)
             /\ has_key(round.before, rule.key)) =>
                /\ HasKey(round.tool_input, rule.field)
                /\ Get(round.tool_input, rule.field)
                      = recall(round.before, rule.key)

(***************************************************************************)
(* Properties of the conversation                                          *)
(***************************************************************************)
\* the query returned the text of an answer action and nothing was trimmed
AnswerReturned ==
    /\ pc = "returned"
    /\ model_calls > 0
    /\ IsWord(Get(action, "tool"), "answer")
    /\ HasKey(Get(action, "tool_input"), "text")
    /\ Truthy(Get(Get(action, "tool_input"), "text"))
    /\ Len(added) <= max_messages

\* the messages the current query appended
Appended == SubSeq(added, mark + 1, Len(added))

Transcript ==
    AnswerReturned =>
        LET k == tool_rounds
        IN  /\ messages = added
            /\ Len(Appended) = k + 2
            /\ Appended[1] = Message("user", query)
            /\ \A i \in 2..(k + 1) :
                  /\ Appended[i].role = "assistant"
                  /\ Appended[i].content.t = "str"
                  /\ Appended[i].content.s[1] = "Observation: "
            /\ k > 0 => Appended[k + 1].content.s
                           = <<"Observation: ">> \o round.observation
            /\ Appended[k + 2] = Message("assistant", returned)
            /\ returned = Get(Get(action, "tool_input"), "text")
            /\ \A i \in 1..(k + 2) :
                  /\ Appended[i].role # "system"
                  /\ Appended[i].content.s \notin Replies

RepliesNotStored ==
    pc \in {"await_model", "have_text"} =>
        (added' = added /\ messages' = messages)

\* C8: a query that ran k tool rounds and then got an answer action with a
\* non-empty text, with nothing trimmed, leaves in the conversation exactly
\* what it appended, in order: the user's query, k assistant messages that
\* start with "Observation: ", one per round, and the final answer as an
\* assistant message; no reply of the model and no system prompt is
\* stored, and the value returned is the text of the answer.
C8_Transcript == []Transcript /\ [][RepliesNotStored]_vars

\* two tool rounds, then an answer
C8_Witness == AnswerReturned /\ tool_rounds = 2

(***************************************************************************)
(* Properties of the answer action and of an unavailable model             *)
(***************************************************************************)
\* the step taken on an extracted answer action: the query is over, no tool
\* is executed, the text of the action is returned and is the last message
AnswerEndsQuery ==
    (pc = "loop_test" /\ IsWord(Get(action, "tool"), "answer")) =>
        /\ pc' = "returned"
        /\ tool_rounds' = tool_rounds
        /\ registry_calls' = registry_calls
        /\ HasKey(Get(action, "tool_input"), "text")
        /\ returned' = Get(Get(action, "tool_input"), "text")
        /\ Len(messages') > 0
        /\ messages'[Len(messages')] = Message("assistant", returned')

\* C11: whenever the extracted action has tool "answer", process_query
\* ends without executing a tool, returns exactly action.tool_input["text"],
\* and the last message in memory is an assistant message with that text.
C11_AnswerEndsQuery == [][AnswerEndsQuery]_vars

\* the step that starts a query while the client reports the model
\* unavailable
UnavailableStep ==
    (queries' = queries + 1 /\ ~available') =>
        /\ pc' = "returned"
        /\ returned' = Unavailable
        /\ messages' = messages
        /\ added' = added
        /\ data' = data
        /\ model_calls' = 0
        /\ tool_rounds' = 0
        /\ registry_calls' = 0
        /\ replies_used' = replies_used

\* nothing runs on behalf of a query that found the model unavailable
UnavailableIdle ==
    ~available =>
        /\ pc = "returned"
        /\ model_calls = 0
        /\ tool_rounds = 0
        /\ registry_calls = 0

\* C12: if the LLM client reports itself unavailable when a query
\* arrives, process_query returns at once: the query is not appended, no
\* message is added, keyed memory is unchanged, and neither the model nor
\* a tool is called.
C12_UnavailableReturns == []UnavailableIdle /\ [][UnavailableStep]_vars

\* a query found the model unavailable after an earlier query had left
\* its messages in the conversation
C12_Witness ==
    /\ pc = "returned"
    /\ ~available
    /\ returned = Unavailable
    /\ queries = 2
    /\ Len(messages) > 0

(***************************************************************************)
(* Properties of the MemoryStore                                           *)
(***************************************************************************)
\* the last call of the API, when there is one
LastCall == calls[Len(calls)]

\* the store was just restored from the snapshot to_json wrote of it
Restored ==
    /\ calls # <<>>
    /\ LastCall.op = "from_json"
    /\ LastCall.args.text
          = to_json(LastCall.before.data, LastCall.before.messages)

\* C13: for every state of a MemoryStore, from_json(to_json(m)) does not
\* raise and yields the same messages in the same order, with the same
\* role, content, metadata and timestamp, and the same keyed items, with
\* the same value, metadata, created_at and updated_at.
C13_RoundTrip ==
    Restored =>
        /\ LastCall.result = None
        /\ messages = LastCall.before.messages
        /\ data = LastCall.before.data

\* the entries of the metadata argument of a call (None has none)
Entries(metadata) == IF IsDict(metadata) THEN metadata.m ELSE <<>>

\* the last two calls were remember(key, v1, m1) and remember(key, v2, m2)
RememberedTwice ==
    /\ Len(calls) >= 2
    /\ LastCall.op = "remember"
    /\ calls[Len(calls) - 1].op = "remember"
    /\ calls[Len(calls) - 1].args.key = LastCall.args.key

\* C14: remember(key, v1, m1) followed by remember(key, v2, m2) leaves a
\* single item under key: recall(key) returns v2, and the metadata of the
\* item has every entry of m2 and every entry of m1 whose key m2 does not
\* have.
C14_RememberMerges ==
    RememberedTwice =>
        LET key == LastCall.args.key
            m1  == Entries(calls[Len(calls) - 1].args.metadata)
            m2  == Entries(LastCall.args.metadata)
            got == recall_with_metadata(data, key)
        IN  /\ has_key(data, key)
            /\ recall(data, key) = LastCall.args.value
            /\ got.value = LastCall.args.value
            /\ DOMAIN m1 \cup DOMAIN m2 \subseteq DOMAIN got.metadata.m
            /\ \A k \in DOMAIN m2 : got.metadata.m[k] = m2[k]
            /\ \A k \in DOMAIN m1 \ DOMAIN m2 : got.metadata.m[k] = m1[k]

\* v1 with m1 and then v2 with m2 were remembered under one key, m1 and m2
\* sharing the key "a"
C14_Witness ==
    /\ RememberedTwice
    /\ calls[Len(calls) - 1].args.metadata = M1
    /\ LastCall.args.metadata = M2
    /\ calls[Len(calls) - 1].args.value # LastCall.args.value
    /\ data[LastCall.args.key].metadata.m
          = (K("a") :> PyNum(<<"2">>) @@ K("b") :> PyNum(<<"1">>)
             @@ K("c") :> PyNum(<<"3">>))

\* the calls among the first n that remember or forget key
Touches(key, n) ==
    {i \in 1..n : /\ calls[i].op \in {"remember", "forget"}
                  /\ calls[i].args.key = key}

\* the last of a non-empty set of calls
Latest(is) == CHOOSE i \in is : \A j \in is : j <= i

\* key was remembered and has not been forgotten since
Remembered(key) ==
    /\ Touches(key, Len(calls)) # {}
    /\ calls[Latest(Touches(key, Len(calls)))].op = "remember"

\* has_key and recall answer as a map from keys to the last value remembered
BehavesAsMap ==
    \A key \in MemoryKeys \cup {"k3"} :
        /\ has_key(data, key) <=> Remembered(key)
        /\ recall(data, key)
             = IF Remembered(key)
               THEN calls[Latest(Touches(key, Len(calls)))].args.value
               ELSE None

\* every forget returned whether the key was there, and left it absent
ForgetReports ==
    \A i \in 1..Len(calls) :
        calls[i].op = "forget" =>
            /\ calls[i].result
                 = IF has_key(calls[i].before.data, calls[i].args.key)
                   THEN PyLit("true") ELSE PyLit("false")
            /\ i = Len(calls) => ~has_key(data, calls[i].args.key)

\* the last remember or forget left the entries of the other keys alone
OtherKeysKept ==
    (calls # <<>> /\ LastCall.op \in {"remember", "forget"}) =>
        \A key \in MemoryKeys \ {LastCall.args.key} :
            /\ has_key(data, key) <=> has_key(LastCall.before.data, key)
            /\ has_key(data, key) => data[key] = LastCall.before.data[key]

\* C15: after any sequence of remember and forget calls the keyed store
\* behaves as a map: has_key(k) is true exactly when k was remembered and
\* not forgotten since, recall(k) is the last value remembered for k when
\* present and None when absent, forget(k) returns true exactly when
\* has_key(k) was true before it and leaves has_key(k) false, and a call on
\* one key never changes the entry of another key.
C15_KeyedStoreIsMap == BehavesAsMap /\ ForgetReports /\ OtherKeysKept

\* k1 was forgotten with success while k2 stayed remembered
C15_Witness ==
    /\ calls # <<>>
    /\ LastCall.op = "forget"
    /\ LastCall.result = PyLit("true")
    /\ LastCall.args.key = "k1"
    /\ ~has_key(data, "k1")
    /\ has_key(data, "k2")

(***************************************************************************)
(* Properties of extract_action                                            *)
(***************************************************************************)
\* extract_action has been called on response_text
Called == pc \in {"returned", "raised"}

\* the first action block of the reply
FirstBlock == SearchAction(response_text)

\* the block as json.loads reads it, without any repair
AsWritten == loads(FirstBlock.group)

\* the first block is a valid JSON object with the keys tool (string),
\* tool_input (object) and reasoning (string)
ValidAction ==
    /\ FirstBlock.found
    /\ AsWritten.ok
    /\ IsDict(AsWritten.v)
    /\ DOMAIN AsWritten.v.m = {K("tool"), K("tool_input"), K("reasoning")}
    /\ Get(AsWritten.v, "tool").t = "str"
    /\ IsDict(Get(AsWritten.v, "tool_input"))
    /\ Get(AsWritten.v, "reasoning").t = "str"

\* C16: for every reply whose first action block is a valid JSON object
\* with the keys tool (string), tool_input (object) and reasoning (string),
\* extract_action returns exactly that parsed object: no repair step alters
\* or rejects a block that was already valid JSON.
C16_ValidBlockKept ==
    (Called /\ ValidAction) => (pc = "returned" /\ action = AsWritten.v)

\* the reply with an action block that response_text is, if it is one
IsBlockReply == \E r \in BlockReplies : ReplyText(r) = response_text
TheReply     == CHOOSE r \in BlockReplies : ReplyText(r) = response_text

\* the reply without its trailing commas
WithoutTrailingCommas(r) ==
    [r EXCEPT !.tail = <<>>,
              !.kind = CASE @ = "comma" -> "number"
                         [] @ = "array" -> "list"
                         [] OTHER -> @]

\* the block of the reply is well-formed JSON but for trailing commas
TrailingCommasOnly(r) ==
    /\ r.q = DQ
    /\ r.closed
    /\ WithoutTrailingCommas(r) # r
    /\ loads(ReplyJSON(WithoutTrailingCommas(r))).ok

\* extract_action returned what it returns for the reply r
ReturnedAsFor(r) ==
    /\ pc = "returned"
    /\ ~extract_action(ReplyText(r)).raised
    /\ action = extract_action(ReplyText(r)).action

\* the block holds no single quote
NoSingleQuote == \A i \in 1..Len(FirstBlock.group) : FirstBlock.group[i] # SQ

Plain(r) == [WithoutTrailingCommas(r) EXCEPT !.q = DQ]

\* the JSON of the block has a trailing comma before a closing brace and
\* is well-formed otherwise
CommaBeforeBrace(r) ==
    /\ r.q = DQ
    /\ r.closed
    /\ r.tail # <<>> \/ r.kind = "comma"
    /\ r.kind # "array"
    /\ loads(ReplyJSON(Plain(r))).ok

\* the keys and strings of the block are written with single quotes and
\* the block is well-formed otherwise
SingleQuoted(r) ==
    /\ r.q = SQ
    /\ r.closed
    /\ WithoutTrailingCommas(r) = r
    /\ loads(ReplyJSON(Plain(r))).ok

\* the strings of the block hold no quote of their own
NoQuoteInStrings(r) == r.kind # "apostrophe"

Repaired == FixCommonErrors(Strip(FirstBlock.group))

\* the first block is not JSON as written, nor after the repairs, nor after
\* the repairs and the removal of all whitespace
Unparseable ==
    /\ FirstBlock.found
    /\ ~AsWritten.ok
    /\ ~loads(Repaired).ok
    /\ ~loads(SubWhitespace(Repaired)).ok

\* C19: for every reply whose first action block cannot be parsed as JSON
\* even after all repair steps, extract_action raises ParsingError, no
\* other exception and no fallback answer action, and the error carries
\* the complete reply text unchanged as its raw_output.
C19_UnparseableRaises ==
    (Called /\ Unparseable) =>
        /\ pc = "raised"
        /\ raised.type = "ParsingError"
        /\ raised.raw_output = response_text
        /\ action = EmptyDict

\* a ParsingError was raised for a block without its closing brace, in a
\* reply with text before the block and another block after it
C19_Witness ==
    /\ pc = "raised"
    /\ Unparseable
    /\ IsBlockReply
    /\ ~TheReply.closed
    /\ TheReply.prefix # <<>>
    /\ TheReply.suffix # <<>>
    /\ raised.raw_output = response_text

\* the reply holds no opening tag with a closing tag after it
NoBlock ==
    ~ \E i, j \in 1..Len(response_text) :
          i < j /\ response_text[i] = OPEN /\ response_text[j] = CLOSE

\* C20: for every reply text without an action block, extract_action does
\* not raise and returns exactly the action with tool "answer", tool_input
\* {text: the reply with leading and trailing whitespace removed} and
\* reasoning "No structured action found.".
C20_FallbackAnswer ==
    (Called /\ NoBlock) =>
        /\ pc = "returned"
        /\ action = PyDict(K("tool") :> S("answer")
                          @@ K("tool_input") :>
                                 PyDict(K("text") :> PyStr(Strip(response_text)))
                          @@ K("reasoning") :> S("No structured action found."))

\* the object json.loads made of the first block, after the repairs or,
\* failing that, after the repairs and the removal of whitespace
Parsed ==
    IF loads(Repaired).ok THEN loads(Repaired).v
    ELSE loads(SubWhitespace(Repaired)).v

\* the action returned has the three keys and a tool_input that is a dict
WellShaped(a) ==
    /\ IsDict(a)
    /\ {K("tool"), K("tool_input"), K("reasoning")} \subseteq DOMAIN a.m
    /\ IsDict(Get(a, "tool_input"))

\* the action returned is the parsed object with tool defaulted to
\* "answer", tool_input defaulted to {} or wrapped as {"text": str(v)},
\* reasoning defaulted to a placeholder, and every other entry as parsed
DefaultsApplied ==
    /\ Get(action, "tool")
         = IF HasKey(Parsed, "tool") THEN Get(Parsed, "tool") ELSE S("answer")
    /\ Get(action, "tool_input")
         = IF ~HasKey(Parsed, "tool_input") THEN EmptyDict
           ELSE IF IsDict(Get(Parsed, "tool_input"))
                THEN Get(Parsed, "tool_input")
                ELSE PyDict(K("text") :> PyStr(str(Get(Parsed, "tool_input"))))
    /\ Get(action, "reasoning")
         = IF HasKey(Parsed, "reasoning") THEN Get(Parsed, "reasoning")
           ELSE S("No reasoning provided.")
    /\ DOMAIN action.m
         = DOMAIN Parsed.m \cup {K("tool"), K("tool_input"), K("reasoning")}

\* C21: every action extract_action returns is a mapping with the keys
\* tool, tool_input and reasoning whose tool_input is a mapping: tool
\* defaults to "answer", a tool_input v that is not a mapping becomes
\* {"text": str(v)}, reasoning defaults to a placeholder; so the tool_input
\* of the action a tool round is given is a mapping.
C21_ActionNormalized ==
    pc = "returned" =>
        /\ WellShaped(action)
        /\ FirstBlock.found => DefaultsApplied

\* an action came back from a block without tool and reasoning whose
\* tool_input was null
C21_Witness ==
    /\ pc = "returned"
    /\ FirstBlock.found
    /\ DOMAIN Parsed.m = {K("tool_input")}
    /\ Get(Parsed, "tool_input") = None
    /\ Get(action, "tool_input") = PyDict(K("text") :> S("None"))
    /\ IsWord(Get(action, "tool"), "answer")

\* what extract_action does with the first block of the reply r alone
FirstBlockAlone(r) ==
    extract_action(Block(r.pad \o ReplyJSON(r) \o r.pad))

\* C22: when a reply holds several action blocks the result of
\* extract_action depends on the first block only: it is the result for
\* that block alone, and a later block, valid or malformed, neither changes
\* the action returned nor causes or prevents an error.
C22_FirstBlockOnly ==
    (Called /\ IsBlockReply /\ TheReply.suffix # <<>>) =>
        /\ (pc = "raised") <=> FirstBlockAlone(TheReply).raised
        /\ action = FirstBlockAlone(TheReply).action
        /\ raised.type = FirstBlockAlone(TheReply).error.type

\* the action of the first block came back from a reply whose second
\* block is malformed
C22_Witness ==
    /\ pc = "returned"
    /\ IsBlockReply
    /\ TheReply.suffix = <<SP>> \o ReplyMalformed
    /\ TheReply.kind = "text"
    /\ IsWord(Get(action, "tool"), "get_route")

(***************************************************************************)
(* ToolRegistry on its own: tools are registered into an empty registry    *)
(* and looked up                                                           *)
(***************************************************************************)
MaxRegistrations == 3

\* the callables handed to register: what they accept and what they need
Funcs ==
    {[signature |-> t.signature, positional |-> t.positional] :
        t \in {GetRouteTool, SamplePolylineTool}}

Schemas == {t.schema : t \in {GetRouteTool, SamplePolylineTool}}

RegisteredNames == {K("get_route"), K("sample_polyline")}

\* ToolRegistry.__init__
InitRegistry ==
    /\ now = 0
    /\ cls = "Agent"
    /\ registry = <<>>
    /\ max_iterations = MaxIterations
    /\ max_messages = DefaultMaxMessages
    /\ messages = <<>>
    /\ data = <<>>
    /\ pc = "idle"
    /\ query = None
    /\ mark = 0
    /\ response_text = <<>>
    /\ action = EmptyDict
    /\ iterations = 0
    /\ returned = None
    /\ raised = NoError
    /\ model_calls = 0
    /\ tool_rounds = 0
    /\ registry_calls = 0
    /\ round = NoRound
    /\ added = <<>>
    /\ replies_used = 0
    /\ queries = 0
    /\ available = TRUE
    /\ calls = <<>>
    /\ stream = FALSE
    /\ context = <<>>

\* registry.register(name, func, schema)
Register(name, func, schema) ==
    /\ Len(calls) < MaxRegistrations
    /\ registry' = register(registry, name, func, schema)
    /\ calls' = Append(calls, Call("register",
                        [name |-> name, func |-> func, schema |-> schema],
                        None))
    /\ UNCHANGED <<cls, max_iterations, max_messages, messages, data, pc,
                   query, mark, response_text, action, iterations, returned,
                   raised, model_calls, tool_rounds, registry_calls, round,
                   added, replies_used, queries, available, now, stream,
                   context>>

NextRegistry ==
    \E name \in RegisteredNames, func \in Funcs, schema \in Schemas :
        Register(name, func, schema)

SpecRegistry == InitRegistry /\ [][NextRegistry]_vars

(***************************************************************************)
(* Registration replaces and is idempotent                                 *)
(***************************************************************************)
\* the registrations of a name, in order
RegistrationsOf(name) ==
    SelectSeq(calls, LAMBDA c : c.op = "register" /\ c.args.name = name)

LastRegistration(name) ==
    RegistrationsOf(name)[Len(RegistrationsOf(name))].args

\* C23: the registry holds exactly one entry for each name ever registered,
\* bound to the executable and the schema of the latest registration of
\* that name, whatever was registered under other names before or after;
\* registering the latest triple of a name once more changes nothing.
C23_RegisterReplaces ==
    /\ DOMAIN registry = {n \in RegisteredNames : RegistrationsOf(n) # <<>>}
    /\ \A n \in RegisteredNames :
          RegistrationsOf(n) # <<>> =>
             /\ n \in DOMAIN registry
             /\ registry[n].schema = LastRegistration(n).schema
             /\ registry[n].signature = LastRegistration(n).func.signature
             /\ registry[n].positional = LastRegistration(n).func.positional
             /\ register(registry, n, LastRegistration(n).func,
                         LastRegistration(n).schema) = registry

\* a name registered twice with different executables, another name
\* registered in between
C23_Witness ==
    /\ Len(calls) = 3
    /\ calls[1].args.name = K("get_route")
    /\ calls[2].args.name = K("sample_polyline")
    /\ calls[3].args.name = K("get_route")
    /\ calls[1].args.func # calls[3].args.func
    /\ calls[1].args.schema # calls[3].args.schema
    /\ registry[K("get_route")].signature = calls[3].args.func.signature
    /\ registry[K("sample_polyline")].schema = calls[2].args.schema

(***************************************************************************)
(* The base Agent's tool round and the keyed memory                        *)
(***************************************************************************)
\* the keys a tool round is to set, with their new values: nothing for a
\* failed result or a tool without a rule
RuleTable(r) ==
    LET res == r.result.result
        If(cond, key, value) == IF cond THEN {<<key, value>>} ELSE {}
    IN  IF ~r.result.success THEN {}
        ELSE IF IsWord(r.tool, "get_route")
        THEN If(IsDict(res) /\ HasKey(res, "polyline"),
                "encoded_polyline", Get(res, "polyline"))
             \cup If(IsDict(res) /\ HasKey(res, "polyline_coords"),
                     "polyline_coords", Get(res, "polyline_coords"))
        ELSE IF IsWord(r.tool, "sample_polyline")
        THEN If(IsList(res), "polyline_coords", res)
        ELSE IF IsWord(r.tool, "get_places")
        THEN If(IsList(res), "places", res)
        ELSE IF IsWord(r.tool, "get_natural_features")
        THEN If(IsList(res), "features", res)
        ELSE {}

C24_Step ==
    cls = "Agent" =>
       IF tool_rounds' = tool_rounds + 1
       THEN \A key \in DOMAIN data \cup DOMAIN data'
                       \cup {kv[1] : kv \in RuleTable(round')} :
               IF \E kv \in RuleTable(round') : kv[1] = key
               THEN /\ key \in DOMAIN data'
                    /\ \A kv \in RuleTable(round') :
                          kv[1] = key => data'[key].value = kv[2]
               ELSE /\ key \in DOMAIN data
                    /\ key \in DOMAIN data'
                    /\ data'[key] = data[key]
       ELSE data' = data

\* C24: in the base Agent a step changes the keyed memory only if it is a
\* tool round whose ToolResult succeeded, and then exactly as the rule
\* table says: the keys of the table get the values of the result, every
\* other key keeps its item, no key is removed; a failed round, a round of
\* a tool without a rule, and every step that is not a tool round (an
\* answer step among them) leave the memory as it was.
C24_MemoryFollowsRules == [][C24_Step]_vars

\* a route without coordinates came back after a full one: the polyline
\* is replaced and the coordinates of the first route are kept
C24_Witness ==
    /\ cls = "Agent"
    /\ pc = "await_model"
    /\ IsWord(round.tool, "get_route")
    /\ round.result.success
    /\ round.result.result = PartialRouteData
    /\ "polyline_coords" \in DOMAIN round.before
    /\ "polyline_coords" \in DOMAIN data
    /\ data["polyline_coords"] = round.before["polyline_coords"]
    /\ round.before["encoded_polyline"].value = S("enc")
    /\ data["encoded_polyline"].value = S("enc2")

(***************************************************************************)
(* The order of the steps of a query                                       *)
(***************************************************************************)
ObservationOf(r) == PyStr(<<"Observation: ">> \o r.observation)

\* a tool round: it follows the extraction of its iteration; the registry
\* is handed the input as injected from the memory of before the round;
\* the memory is updated from what the registry returned; the observation
\* of that result is the last message stored; no model call is part of it
ToolRoundInOrder ==
    tool_rounds' = tool_rounds + 1 =>
       /\ pc = "loop_test"
       /\ model_calls = tool_rounds + 1
       /\ model_calls' = model_calls
       /\ round'.before = data
       /\ round'.tool_input =
             _inject_memory_into_tool_input(cls, data, round'.tool,
                                            round'.given).tool_input
       /\ \E outcome \in ToolOutcomes(round'.tool) :
             round'.exec = RegistryExecute(registry, round'.tool,
                                           round'.tool_input, outcome)
       /\ data' = IF round'.exec.raised = NoError /\ round'.exec.result.success
                  THEN _update_memory_from_tool_result(
                           cls, data, round'.tool, round'.exec.result.result)
                  ELSE data
       /\ pc' \in {"await_model", "raised"}
       /\ pc' = "await_model" =>
             /\ messages' # <<>>
             /\ messages'[Len(messages')].content = ObservationOf(round')

\* a model call: every earlier model call of the query had its tool round;
\* the context is the system prompt and then the history as it stands, and
\* after the first call its last message is the observation of that round
ModelCallInOrder ==
    model_calls' = model_calls + 1 =>
       /\ pc = "await_model"
       /\ pc' = "have_text"
       /\ tool_rounds = model_calls
       /\ context'[1] = [role |-> "system", content |-> SystemPrompt]
       /\ SubSeq(context', 2, Len(context')) =
             get_conversation_history(messages)
       /\ model_calls >= 1 =>
             context'[Len(context')] =
                [role |-> "assistant", content |-> ObservationOf(round)]
       /\ UNCHANGED <<action, data, messages, round>>

\* an extraction: it follows the model call of its iteration and precedes
\* the tool round
ExtractionInOrder ==
    (pc = "have_text" /\ pc' # pc) =>
       /\ tool_rounds = model_calls - 1
       /\ pc' \in {"loop_test", "raised"}
       /\ UNCHANGED <<model_calls, tool_rounds, data, messages, round,
                      context>>

\* C25: the steps of a query follow one another in one order: a tool round
\* injects from the memory, hands the injected input to the registry,
\* updates the memory from the result and stores the observation; then the
\* model is called with the system prompt followed by the whole current
\* history, whose last message is that observation; then the reply is
\* extracted.
C25_StepsInOrder ==
    [][ToolRoundInOrder /\ ModelCallInOrder /\ ExtractionInOrder]_vars

\* a second model call whose context ends with the observation of a
\* successful get_route round that filled the memory
C25_Witness ==
    /\ pc = "have_text"
    /\ model_calls = 2
    /\ tool_rounds = 1
    /\ IsWord(round.tool, "get_route")
    /\ round.result.success
    /\ "polyline_coords" \in DOMAIN data
    /\ "polyline_coords" \notin DOMAIN round.before
    /\ Len(context) >= 3
    /\ context[Len(context)].content = ObservationOf(round)

(***************************************************************************)
(* A required field that neither the model nor the memory supplies         *)
(***************************************************************************)
\* a rule of injection applies to the round, its field is required by the
\* schema of the tool, and neither the given tool_input has the field nor
\* the memory the key
Unsupplied(rule) ==
    /\ IsWord(round.tool, rule.tool)
    /\ rule.field \in registry[K(rule.tool)].schema.required
    /\ ~HasKey(round.given, rule.field)
    /\ ~has_key(round.before, rule.key)

\* C26: when a required field that injection could fill is missing from
\* the tool_input and its key is missing from the memory, nothing is
\* injected for it, the registry gets the input without the field, the
\* executable is not called, and the error of the ToolResult of the round
\* is an InvalidToolInputError.
C26_MissingFieldReported ==
    pc = "executed" =>
        \A rule \in InjectionRules :
            Unsupplied(rule) =>
                /\ ~HasKey(round.tool_input, rule.field)
                /\ round.exec.invoked = 0
                /\ ~round.result.success
                /\ round.result.error.type = "InvalidToolInputError"

(***************************************************************************)
(* The observation of a tool round                                         *)
(***************************************************************************)
ErrorObservation(r) ==
    <<"Error executing tool '">> \o str(r.tool) \o <<"': ">>
    \o StrOfError(r.result.error)

\* C27: for both classes of agent and every tool name, the observation of
\* a round whose ToolResult has success = false is the error text
\* "Error executing tool '<name>': <error>", never a success template.
C27_FailureObserved ==
    (pc = "executed" /\ ~round.result.success) =>
        /\ raised = NoError
        /\ round.observation = ErrorObservation(round)

(***************************************************************************)
(* Streaming                                                               *)
(***************************************************************************)
\* a model call hands on the whole scripted reply, the text a call of chat
\* gives for it, whether process_query streams or not
WholeReplyRead ==
    model_calls' = model_calls + 1 =>
       \E reply \in Replies :
          /\ response_text' = reply
          /\ response_text' = extract_content(chat(reply))
          /\ stream =>
                /\ Len(stream_chat(reply)) > 1
                /\ \A i \in 1..Len(stream_chat(reply)) :
                      stream_chat(reply)[i] =
                         SubSeq(response_text', (i - 1) * ChunkSize + 1,
                                Min(i * ChunkSize, Len(response_text')))

\* the text is not touched between the model call and the extraction,
\* and the extraction is the step after the model call
WholeReplyExtracted ==
    /\ pc = "have_text" => pc' \in {"loop_test", "raised"}
    /\ (pc = "have_text" /\ pc' # pc) =>
          /\ response_text \in Replies
          /\ response_text' = response_text
          /\ model_calls' = model_calls

\* the flag is the parameter of the query and stays as it is until the
\* next query
StreamFixed == queries' = queries => stream' = stream

\* C28: with stream = True the text handed to extract_action is the
\* concatenation, in order, of all the chunks stream_chat yields, and the
\* extraction happens only once the chunks are exhausted; that text is the
\* text chat gives for the same scripted reply, so the steps that follow
\* are those of a query with stream = False.
C28_StreamedLikeBlocking ==
    [][WholeReplyRead /\ WholeReplyExtracted /\ StreamFixed]_vars

\* the second reply of a streaming query, read in several chunks, is ready
\* for extraction
C28_Witness ==
    /\ stream
    /\ pc = "have_text"
    /\ model_calls = 2
    /\ response_text = ReplySample
    /\ Len(stream_chat(ReplySample)) > 1
    /\ "polyline_coords" \in DOMAIN data

(***************************************************************************)
(* GoogleMapsAgent: the lists handed to render_map                         *)
(***************************************************************************)
\* the lists render_map takes from the memory: key of the memory and field
\* of the input, and the field that names a file instead
ListRules ==
    {[key |-> "places", path |-> "places_path"],
     [key |-> "features", path |-> "features_path"]}

\* C29: in GoogleMapsAgent, when render_map is called with a tool_input
\* that has neither the list nor its path and the memory holds a list
\* that is not empty under the key, the injected tool_input has the list
\* as recalled from the memory.
C29_ListsInjected ==
    (pc = "executed" /\ cls = "GoogleMapsAgent"
        /\ IsWord(round.tool, "render_map")) =>
        \A rule \in ListRules :
            (/\ ~HasKey(round.given, rule.key)
             /\ ~HasKey(round.given, rule.path)
             /\ has_key(round.before, rule.key)
             /\ IsList(recall(round.before, rule.key))
             /\ Truthy(recall(round.before, rule.key))) =>
                /\ HasKey(round.tool_input, rule.key)
                /\ Get(round.tool_input, rule.key)
                      = recall(round.before, rule.key)

(***************************************************************************)
(* GoogleMapsAgent: the observation of a successful round                  *)
(***************************************************************************)
SummarisedTools ==
    {"get_route", "sample_polyline", "get_places", "get_natural_features"}

\* the result of the round is of the kind its tool's summary is written
\* for: a route without an error entry, or a list
Summarisable(r) ==
    LET res == r.result.result
    IN  IF IsWord(r.tool, "get_route")
        THEN IsDict(res) /\ ~HasKey(res, "error")
        ELSE (\E w \in SummarisedTools : IsWord(r.tool, w)) /\ IsList(res)

\* C30: in GoogleMapsAgent the observation of a successful get_route,
\* sample_polyline, get_places or get_natural_features round is the
\* summary written for the tool ("Route calculated: <distance>,
\* <duration>", "Route sampled to N points.", "Found N places along the
\* route: ...") and not the base Agent's dump of the result.
C30_SummaryObserved ==
    (pc = "executed" /\ cls = "GoogleMapsAgent" /\ round.result.success
        /\ Summarisable(round)) =>
        /\ raised = NoError
        /\ round.observation =
              GoogleMapsFormat(round.tool, round.result.result).text
        /\ IsWord(round.tool, "sample_polyline") =>
              round.observation =
                 <<"Route sampled to ",
                   Numeral(Len(round.result.result.m)), " points.">>
        /\ round.observation # AgentFormat(round.tool, round.result).text


====
